---- MODULE Spec2Model ----
(***************************************************************************)
(* Drivers' hours follow-up: the Excel ingestion pipeline (excel-parser),  *)
(* the import page and its server action importData, and the analytics     *)
(* page's aggregation, modelled as state machines.                         *)
(*                                                                         *)
(* The hours of the import and analytics pages are integers (whole hours), *)
(* the hours the parser reads from cells are counted in sixtieths; an      *)
(* average is kept as the pair (sum, count) and compared by                *)
(* cross-multiplication, so no rounding takes place in the model.          *)
(***************************************************************************)
EXTENDS Integers, Sequences, FiniteSets, TLC

VARIABLES
    clock,          \* what new Date() returns: [year, month]
    \* ---- import page (React state of ImportPage) ----
    stage,          \* "upload" | "preview" | "importing" | "done"
    parseResult,    \* NULL or [sheets, globalErrors]
    sheetConfigs,   \* sequence of [sheetIndex, enabled, periodNumber, year]
    \* ---- storage (the tables importData writes) ----
    db,             \* [reference_periods, imports, drivers, monthly_records]
    lastImport,     \* history of the last importData call (for sequencing claims)
    \* ---- analytics page ----
    distData,       \* rows of driver_period_summary fetched for the selection
    monthlyData,    \* rows of monthly_records fetched for the selection
    selectedPeriods, \* rows of reference_periods fetched for the selection
    analytics,      \* NULL or the values AnalyticsPage computed from the fetched rows
    \* ---- analytics client (fetchData) ----
    summaryData,    \* NULL or [rows]: the rows of driver_period_summary the client fetched
    periodComparison, \* the rows of the period comparison, [] at first
    loading,        \* TRUE until fetchData is through
    \* ---- parseSheet ----
    sheetRows,      \* the grid given by sheet_to_json: sequence of rows of cells
    sheetName,      \* the name of the sheet
    phase,          \* "Idle" | "HeaderSearch" | "ColumnMapping" | "RowParsing" | "Done" | "Rejected"
    headerRowIndex, \* 0-based index of the header row
    headers,        \* the header cells, as strings
    mapping,        \* NULL or the ColumnMapping
    rowCursor,      \* 0-based index of the next data row to parse
    sheetResult,    \* NULL or the SheetParseResult
    \* ---- parseTimeValue ----
    timeValue,      \* the cell value given to parseTimeValue
    timeResult,     \* NULL or [hours]: the hours it returned, in sixtieths
    \* ---- parseExcelFile ----
    workbook,       \* what XLSX.read gives: [readable, sheets], a sheet being [name, rows]
    sheetCursor,    \* 0 before XLSX.read, then the 1-based sheet parseExcelFile is at
    fileSheets,     \* the sheet results parseExcelFile has pushed
    fileResult,     \* NULL or the ParseResult
    fetchQuery,     \* NULL or what fetchAllPages is called on: [rows, pageSize, nullAt]
    fetchFrom,      \* from: the offset of the next page
    fetchCalls,     \* the calls of queryFn so far
    fetchResults,   \* results: the rows pushed so far
    fetchReturned,  \* TRUE once fetchAllPages has returned
    calls,          \* the importData calls in progress: [pc, sheet, periodId, importId, driverMap] each
    driverList,     \* NULL or what the driver list computed: [criticalDriverIds]
    selectedDrivers, \* comparison page: the ids of the selected drivers, in order
    pendingAdds,    \* comparison page: the drivers of the addDriver calls awaiting their query
    pendingFiles,   \* import page: the parse results of the handleFile calls awaiting their buffer
    importCall      \* import page: NULL or the importData call of handleImport: [sheets, outcome]

pageVars == <<stage, parseResult, sheetConfigs>>
dbVars == <<db, lastImport>>
anVars == <<distData, monthlyData, selectedPeriods, analytics>>
parserVars == <<sheetRows, sheetName, phase, headerRowIndex, headers, mapping, rowCursor, sheetResult>>
comparisonVars == <<summaryData, periodComparison, loading>>
timeVars == <<timeValue, timeResult>>
workbookVars == <<workbook, sheetCursor, fileSheets, fileResult>>
fetchVars == <<fetchQuery, fetchFrom, fetchCalls, fetchResults, fetchReturned>>
concurrentVars == <<calls>>
driverListVars == <<driverList>>
selectionVars == <<selectedDrivers, pendingAdds>>
awaitVars == <<pendingFiles, importCall>>
callVars == <<comparisonVars, timeVars, workbookVars, fetchVars, concurrentVars, driverListVars,
             selectionVars, awaitVars>>
vars == <<clock, pageVars, dbVars, anVars, parserVars, callVars>>

NULL == [null |-> TRUE]

----------------------------------------------------------------------------
(* Bounds of the model *)

MaxSheets == 3          \* sheets in an uploaded workbook
MaxDataRows == 2        \* parsed rows in a sheet of an uploaded workbook
MaxImports == 2         \* rows of the imports table
MaxPageImports == 1     \* the import page accepts a file while the imports table is shorter
MaxSummaryRows == 2     \* rows of driver_period_summary drawn freely for the analytics page
PadDrivers == 9         \* further drivers, of fixed counters, the population may hold
MaxYearsBack == 0       \* years before the current one offered by the year selector

----------------------------------------------------------------------------
(* Generic helpers *)

Max(a, b) == IF a >= b THEN a ELSE b

Min(a, b) == IF a <= b THEN a ELSE b

Abs(a) == IF a < 0 THEN -a ELSE a

Range(s) == {s[i] : i \in DOMAIN s}

RECURSIVE SumSeq(_)
SumSeq(s) == IF s = <<>> THEN 0 ELSE s[1] + SumSeq(Tail(s))

\* Array.prototype.slice(0, n)
Slice0(s, n) == SubSeq(s, 1, Min(n, Len(s)))

----------------------------------------------------------------------------
(* constants.ts *)

PERIODS ==
    << [number |-> 1, months |-> <<1, 2, 3, 4>>, startMonth |-> 1, endMonth |-> 4],
       [number |-> 2, months |-> <<5, 6, 7, 8>>, startMonth |-> 5, endMonth |-> 8],
       [number |-> 3, months |-> <<9, 10, 11, 12>>, startMonth |-> 9, endMonth |-> 12] >>

PeriodNumbers == {PERIODS[i].number : i \in DOMAIN PERIODS}

\* PERIODS.find((p) => p.number === n)
FindPeriod(n) ==
    IF n \in PeriodNumbers THEN CHOOSE p \in Range(PERIODS) : p.number = n ELSE NULL

getCurrentPeriod ==
    [periodNumber |-> IF clock.month <= 4 THEN 1 ELSE IF clock.month <= 8 THEN 2 ELSE 3,
     year |-> clock.year]

ClockSet == {[year |-> 2025, month |-> 6]}

----------------------------------------------------------------------------
(* Storage: the tables behind the supabase client, as importData uses them. *)
(* Reference periods get ids 1, 2, ... in the order of their creation, a     *)
(* driver's id is its code_salarie (the upsert's conflict key), an import's *)
(* id is its position in the imports table.                                 *)

EmptyDb ==
    [reference_periods |-> {}, imports |-> <<>>, drivers |-> {}, monthly_records |-> {}]

\* the rows of reference_periods for (year, period_number)
PeriodRows(d, year, periodNumber) ==
    {r \in d.reference_periods : r.year = year /\ r.period_number = periodNumber}

NextPeriodId(d) ==
    1 + Cardinality(d.reference_periods)

\* a reference-period write that never takes the conflict path: a new row each time
InsertReferencePeriod(d, year, periodNumber, period) ==
    [d EXCEPT !.reference_periods =
        @ \cup {[id |-> NextPeriodId(d), year |-> year, period_number |-> periodNumber,
                 start_month |-> period.startMonth, end_month |-> period.endMonth]}]

\* from("reference_periods").upsert(..., { onConflict: "year,period_number" }):
\* the row of (year, period_number) keeps its id, a new row gets a new id
UpsertReferencePeriod(d, year, periodNumber, period) ==
    IF PeriodRows(d, year, periodNumber) # {}
    THEN [d EXCEPT !.reference_periods =
            {IF r \in PeriodRows(d, year, periodNumber)
             THEN [r EXCEPT !.start_month = period.startMonth, !.end_month = period.endMonth]
             ELSE r : r \in @}]
    ELSE [d EXCEPT !.reference_periods =
            @ \cup {[id |-> NextPeriodId(d), year |-> year, period_number |-> periodNumber,
                     start_month |-> period.startMonth, end_month |-> period.endMonth]}]

\* .select("id").single(): the id of the row just written
PeriodId(d, year, periodNumber) ==
    LET rows == PeriodRows(d, year, periodNumber)
    IN (CHOOSE r \in rows : \A q \in rows : q.id <= r.id).id

\* from("imports").insert({ ..., status: "processing", row_count: 0 })
InsertImport(d, periodId) ==
    [d EXCEPT !.imports =
        Append(@, [period_id |-> periodId, status |-> "processing", row_count |-> 0])]

\* from("imports").update(fields).eq("id", importId)
UpdateImport(d, importId, status, rowCount) ==
    [d EXCEPT !.imports[importId] = [@ EXCEPT !.status = status, !.row_count = rowCount]]

\* from("monthly_records").delete().eq("period_id", periodId)
DeleteMonthlyRecords(d, periodId) ==
    [d EXCEPT !.monthly_records = {r \in @ : r.period_id # periodId}]

\* from("drivers").upsert(rows, { onConflict: "code_salarie" })
UpsertDrivers(d, rows) ==
    LET codes == {rows[i].code_salarie : i \in DOMAIN rows}
        \* within one statement the last row of a code is the one kept
        LastOf(c) == rows[CHOOSE i \in DOMAIN rows :
                            /\ rows[i].code_salarie = c
                            /\ \A j \in DOMAIN rows : rows[j].code_salarie = c => j <= i]
    IN [d EXCEPT !.drivers =
            {r \in @ : r.code_salarie \notin codes}
            \cup {[id |-> c, code_salarie |-> c, vehicle_type |-> LastOf(c).vehicle_type] : c \in codes}]

RecordKey(r) == <<r.driver_id, r.period_id, r.month, r.year>>

\* from("monthly_records").upsert(batch, { onConflict: "driver_id,period_id,month,year" })
UpsertMonthlyRecords(d, batch) ==
    LET keys == {RecordKey(batch[i]) : i \in DOMAIN batch}
    IN [d EXCEPT !.monthly_records =
            {r \in @ : RecordKey(r) \notin keys} \cup Range(batch)]

----------------------------------------------------------------------------
(* importData (settings/actions): the server action behind the import page. *)
(* A fault names the storage call of a sheet that returns an error:         *)
(*   op     - "none", or the call that fails: "auth" (getUser gives no user, *)
(*            read from the first sheet's fault), "period" (reference period *)
(*            upsert), "import" (import record insert), "delete" (delete of *)
(*            the period's records, whose error the code does not read),    *)
(*            "driver" (a driver batch upsert), "record" (a record batch    *)
(*            upsert);                                                      *)
(*   batch  - the 1-based batch that fails, for "driver" and "record";      *)
(*   status - TRUE when the final update of the import record fails (its    *)
(*            error is not read either).                                    *)

DriverBatchSize == 100

RecordBatchSize == 500

FaultOps == {"none", "auth", "period", "import", "delete", "driver", "record"}

NoFault == [op |-> "none", batch |-> 1, status |-> FALSE]

\* number of batches of at most size elements: for (i = 0; i < n; i += size)
NumBatches(n, size) == (n + size - 1) \div size

Faults(sheetInput) ==
    {f \in [op : FaultOps, batch : 1..Max(1, NumBatches(Len(sheetInput.data), DriverBatchSize)),
            status : BOOLEAN] :
        f.op \notin {"driver", "record"} => f.batch = 1}

\* The values of a Map filled by map.set(keys[i], vals[i]) for i = 1, 2, ...:
\* Array.from(map.values()) holds one value per key, in the order of the first
\* insertion of each key, and it is the last value set for that key.
MapValues(keys, vals) ==
    LET IsFirst(i) == \A j \in 1..(i - 1) : keys[j] # keys[i]
        LastIdx(i) == CHOOSE k \in DOMAIN keys :
                        /\ keys[k] = keys[i]
                        /\ \A j \in DOMAIN keys : keys[j] = keys[i] => j <= k
        G[i \in 0..Len(keys)] ==
            IF i = 0 THEN <<>>
            ELSE IF IsFirst(i) THEN Append(G[i - 1], vals[LastIdx(i)]) ELSE G[i - 1]
    IN G[Len(keys)]

\* a deduplication that keeps the first row of each code
DeduplicateDriversFirst(data) ==
    SelectSeq(data, LAMBDA d : d = data[CHOOSE i \in DOMAIN data :
                                            /\ data[i].codeSalarie = d.codeSalarie
                                            /\ \A j \in 1..(i - 1) :
                                                    data[j].codeSalarie # d.codeSalarie])

\* const uniqueDrivers = new Map(); for (d of data) uniqueDrivers.set(d.codeSalarie, d);
\* const deduplicated = Array.from(uniqueDrivers.values())
DeduplicateDrivers(data) ==
    MapValues([i \in DOMAIN data |-> data[i].codeSalarie], data)

\* the rows sent to from("drivers").upsert for a batch
DriverRows(batch) ==
    [i \in DOMAIN batch |->
        [code_salarie |-> batch[i].codeSalarie, vehicle_type |-> batch[i].vehicleType]]

\* the records of one parsed row: one per month of the row
RowRecords(driver, periodId, importId) ==
    [k \in DOMAIN driver.months |->
        [driver_id |-> driver.codeSalarie, period_id |-> periodId,
         import_id |-> importId,
         month |-> driver.months[k].month, year |-> driver.months[k].year,
         buffer_hours |-> driver.bufferHours,
         positive_hours |-> driver.months[k].positiveHours,
         missing_hours |-> driver.months[k].missingHours,
         overtime_pay |-> driver.months[k].overtimePay,
         counter_end |-> driver.months[k].counterEnd]]

\* the records in the order recordMap.set is called: the rows of deduplicated
\* whose code is in driverMap, each with its months in order
RECURSIVE FlatRecords(_, _, _, _)
FlatRecords(deduplicated, driverMap, periodId, importId) ==
    IF deduplicated = <<>> THEN <<>>
    ELSE (IF Head(deduplicated).codeSalarie \in driverMap
          THEN RowRecords(Head(deduplicated), periodId, importId)
          ELSE <<>>)
         \o FlatRecords(Tail(deduplicated), driverMap, periodId, importId)

\* key = `${driverId}_${periodId}_${m.month}_${m.year}` of recordMap
RecordKeys(flat) ==
    [i \in DOMAIN flat |-> RecordKey(flat[i])]

\* allRecords = Array.from(recordMap.values())
BuildRecords(deduplicated, driverMap, periodId, importId) ==
    MapValues(RecordKeys(FlatRecords(deduplicated, driverMap, periodId, importId)),
              FlatRecords(deduplicated, driverMap, periodId, importId))

\* The steps of the for loop's body for one sheet. A step takes the run so
\* far, s = [db, periodId, importId, driverMap, threw], and gives the run
\* after it.

\* 1. upsert the reference period and read its id
PeriodStep(d, sheetInput, period) ==
    [db |-> UpsertReferencePeriod(d, sheetInput.year, sheetInput.periodNumber, period),
     periodId |->
        PeriodId(UpsertReferencePeriod(d, sheetInput.year, sheetInput.periodNumber, period),
                 sheetInput.year, sheetInput.periodNumber),
     importId |-> 0, driverMap |-> {}, threw |-> FALSE]

\* 2. create the import record
ImportRecordStep(s) ==
    [s EXCEPT !.db = InsertImport(@, s.periodId), !.importId = Len(s.db.imports) + 1]

\* 3. delete the period's records (the returned error is not read)
DeleteStep(s, fault) ==
    IF fault.op = "delete" THEN s
    ELSE [s EXCEPT !.db = DeleteMonthlyRecords(@, s.periodId)]

\* the rows upserted by the batches before the first failing one
BatchesDone(rows, size, fails, failingBatch) ==
    IF fails THEN SubSeq(rows, 1, (failingBatch - 1) * size) ELSE rows

\* 4. upsert the drivers, batch by batch; driverMap gets the codes upserted
DriversStep(s, deduplicated, fault) ==
    LET driverFails == /\ fault.op = "driver"
                       /\ fault.batch <= NumBatches(Len(deduplicated), DriverBatchSize)
        driversDone == BatchesDone(deduplicated, DriverBatchSize, driverFails, fault.batch)
    IN [s EXCEPT !.db = IF driversDone = <<>> THEN @ ELSE UpsertDrivers(@, DriverRows(driversDone)),
                 !.driverMap = {driversDone[i].codeSalarie : i \in DOMAIN driversDone},
                 !.threw = driverFails]

\* the upsert of allRecords, batch by batch
UpsertRecordBatches(s, allRecords, fault) ==
    LET recordFails == /\ fault.op = "record"
                       /\ fault.batch <= NumBatches(Len(allRecords), RecordBatchSize)
        recordsDone == BatchesDone(allRecords, RecordBatchSize, recordFails, fault.batch)
    IN [s EXCEPT !.db = IF recordsDone = <<>> THEN @ ELSE UpsertMonthlyRecords(@, recordsDone),
                 !.threw = recordFails]

\* 5. build the monthly records and upsert them (not reached when a driver batch threw)
RecordsStep(s, deduplicated, fault) ==
    IF s.threw THEN s
    ELSE UpsertRecordBatches(
            s, BuildRecords(deduplicated, s.driverMap, s.periodId, s.importId), fault)

\* 6. / catch: update the import record (the returned error is not read)
StatusStep(s, fault, rowCount) ==
    [db |-> IF fault.status THEN s.db
            ELSE IF s.threw THEN UpdateImport(s.db, s.importId, "failed", 0)
            ELSE UpdateImport(s.db, s.importId, "completed", rowCount),
     threw |-> s.threw]

\* the body after the reference period is stored
ImportIntoPeriod(s, sheetInput, fault) ==
    IF fault.op = "import" THEN [db |-> s.db, threw |-> TRUE]
    ELSE StatusStep(
            RecordsStep(
                DriversStep(DeleteStep(ImportRecordStep(s), fault),
                            DeduplicateDrivers(sheetInput.data), fault),
                DeduplicateDrivers(sheetInput.data), fault),
            fault, Len(sheetInput.data))

\* The body of the for loop of importData for one sheet.
\* Returns the storage after the sheet and whether the sheet threw.
ImportSheet(d, sheetInput, fault) ==
    IF FindPeriod(sheetInput.periodNumber) = NULL THEN [db |-> d, threw |-> TRUE]
    ELSE IF fault.op = "period" THEN [db |-> d, threw |-> TRUE]
    ELSE ImportIntoPeriod(PeriodStep(d, sheetInput, FindPeriod(sheetInput.periodNumber)),
                          sheetInput, fault)

\* importData(input): the sheets in order, stopping at the first that throws.
\* faults[k] is the fault of sheet k.
RECURSIVE ImportSheets(_, _, _, _)
ImportSheets(d, sheets, faults, k) ==
    IF k > Len(sheets) THEN [db |-> d, threw |-> FALSE, failedAt |-> 0]
    ELSE LET r == ImportSheet(d, sheets[k], faults[k])
         IN IF r.threw THEN [db |-> r.db, threw |-> TRUE, failedAt |-> k]
            ELSE ImportSheets(r.db, sheets, faults, k + 1)

importData(d, sheets, faults) ==
    IF sheets # <<>> /\ faults[1].op = "auth"
    THEN [db |-> d, threw |-> TRUE, failedAt |-> 0]  \* if (!user) throw
    ELSE ImportSheets(d, sheets, faults, 1)

----------------------------------------------------------------------------
(* Import page (ImportPage): handleFile with the duplicate-period resolver, *)
(* updateSheetConfig, handleImport, and the two "back to upload" buttons.   *)

\* configs = result.sheets.map((sheet, i) => ({ ... }))
InitialConfigs(sheets) ==
    [i \in DOMAIN sheets |->
        [sheetIndex |-> i,
         enabled |-> Len(sheets[i].data) > 0 /\ Len(sheets[i].errors) = 0,
         periodNumber |-> IF sheets[i].detectedPeriod # NULL
                          THEN sheets[i].detectedPeriod.periodNumber
                          ELSE getCurrentPeriod.periodNumber,
         year |-> IF sheets[i].detectedPeriod # NULL
                  THEN sheets[i].detectedPeriod.year
                  ELSE getCurrentPeriod.year]]

ConfigKey(c) == <<c.periodNumber, c.year>>

\* a resolver that lets the later sheet win a tie
DisablePrevOnTie(currCount, prevCount) == currCount >= prevCount

\* if (currCount > prevCount) disable the previous sheet, else the current one
DisablePrev(currCount, prevCount) == currCount > prevCount

\* One iteration of the resolver loop: st = [configs, seen], seen maps a key
\* to the index of the first enabled sheet met with that key.
ResolveStep(st, sheets, i) ==
    LET c == st.configs[i]
        key == ConfigKey(c)
    IN IF ~c.enabled THEN st
       ELSE IF key \in DOMAIN st.seen
       THEN LET prevIndex == st.seen[key]
                prevCount == Len(sheets[st.configs[prevIndex].sheetIndex].data)
                currCount == Len(sheets[c.sheetIndex].data)
            IN IF DisablePrev(currCount, prevCount)
               THEN [st EXCEPT !.configs[prevIndex].enabled = FALSE]
               ELSE [st EXCEPT !.configs[i].enabled = FALSE]
       ELSE [st EXCEPT !.seen = [k \in DOMAIN st.seen \cup {key} |->
                                    IF k = key THEN i ELSE st.seen[k]]]

\* Auto-disable duplicate periods: for (let i = 0; i < configs.length; i++) ...
ResolveDuplicates(configs, sheets) ==
    LET R[i \in 0..Len(configs)] ==
            IF i = 0 THEN [configs |-> configs, seen |-> <<>>]
            ELSE ResolveStep(R[i - 1], sheets, i)
    IN R[Len(configs)].configs

HandleFileConfigs(sheets) == ResolveDuplicates(InitialConfigs(sheets), sheets)

\* handleFile(file): nameOk is the extension test, result is what
\* parseExcelFile returned for the file's bytes.
handleFile(nameOk, result) ==
    /\ stage = "upload"
    /\ Len(db.imports) < MaxPageImports
    /\ IF ~nameOk
       THEN UNCHANGED pageVars
       ELSE IF Len(result.globalErrors) > 0
       THEN /\ parseResult' = result
            /\ UNCHANGED <<stage, sheetConfigs>>
       ELSE /\ parseResult' = result
            /\ sheetConfigs' = HandleFileConfigs(result.sheets)
            /\ stage' = "preview"
    /\ UNCHANGED <<clock, callVars, dbVars, anVars, parserVars>>

\* updateSheetConfig(index, updates), as the preview's controls call it:
\* the toggle button (sheets with data and no error), the year and period
\* selectors (enabled sheets with data).
updateSheetConfig(index, updates) ==
    /\ stage = "preview"
    /\ parseResult # NULL
    /\ index \in DOMAIN sheetConfigs
    /\ index \in DOMAIN parseResult.sheets
    /\ Len(parseResult.sheets[index].data) > 0
    /\ \/ /\ updates.field = "enabled"
          /\ Len(parseResult.sheets[index].errors) = 0
          /\ sheetConfigs' = [sheetConfigs EXCEPT ![index].enabled = ~@]
       \/ /\ updates.field = "year"
          /\ sheetConfigs[index].enabled
          /\ sheetConfigs' = [sheetConfigs EXCEPT ![index].year = updates.value]
       \/ /\ updates.field = "periodNumber"
          /\ sheetConfigs[index].enabled
          /\ sheetConfigs' = [sheetConfigs EXCEPT ![index].periodNumber = updates.value]
    /\ UNCHANGED <<clock, callVars, stage, parseResult, dbVars, anVars, parserVars>>

\* currentYears = Array.from({ length: 5 }, (_, i) => year - i), cut to the model's bound
currentYears == {clock.year - i : i \in 0..MaxYearsBack}

ConfigUpdates ==
    {[field |-> "enabled", value |-> 0]}
    \cup {[field |-> "year", value |-> y] : y \in currentYears}
    \cup {[field |-> "periodNumber", value |-> n] : n \in PeriodNumbers}

\* sheetConfigs.filter((c) => c.enabled).map((c) => ({ data, periodNumber, year }))
EnabledSheets ==
    LET F[i \in 0..Len(sheetConfigs)] ==
            IF i = 0 THEN <<>>
            ELSE IF sheetConfigs[i].enabled
                 THEN Append(F[i - 1],
                        [data |-> parseResult.sheets[sheetConfigs[i].sheetIndex].data,
                         periodNumber |-> sheetConfigs[i].periodNumber,
                         year |-> sheetConfigs[i].year])
                 ELSE F[i - 1]
    IN F[Len(sheetConfigs)]

\* handleImport up to the await of importData
handleImportStart ==
    /\ stage = "preview"
    /\ parseResult # NULL
    /\ Len(EnabledSheets) > 0
    /\ stage' = "importing"
    /\ UNCHANGED <<clock, callVars, parseResult, sheetConfigs, dbVars, anVars, parserVars>>

\* handleImport from the await on: importData runs on the server, then
\* setStage("done"), or setStage("preview") in the catch
handleImportFinish(faults) ==
    /\ stage = "importing"
    /\ \E r \in {importData(db, EnabledSheets, faults)} :
        /\ db' = r.db
        /\ stage' = IF r.threw THEN "preview" ELSE "done"
    /\ UNCHANGED <<clock, callVars, parseResult, sheetConfigs, lastImport, anVars, parserVars>>

\* "Annuler" (preview) and "Importer un autre fichier" (done)
backToUpload ==
    /\ stage \in {"preview", "done"}
    /\ stage' = "upload"
    /\ parseResult' = NULL
    /\ UNCHANGED <<clock, callVars, sheetConfigs, dbVars, anVars, parserVars>>

----------------------------------------------------------------------------
(* The import page's environment: the parse results a file can give.        *)
(* A sheet result is shaped as parseSheet shapes it: it has an error exactly *)
(* when it has no row, and every month record carries the detected year.     *)

PageCodes == <<"E1", "E2", "E3", "E4">>

PageDetections == {NULL, [periodNumber |-> 1, year |-> 2025]}

PageSheet(n, det) ==
    LET year == IF det # NULL THEN det.year ELSE clock.year
        months == IF det = NULL THEN <<>>
                  ELSE << [month |-> FindPeriod(det.periodNumber).startMonth, year |-> year,
                           positiveHours |-> 2, missingHours |-> 0,
                           overtimePay |-> 1, counterEnd |-> 3] >>
    IN [data |-> [i \in 1..n |->
                    [codeSalarie |-> PageCodes[i], vehicleType |-> "BUS",
                     bufferHours |-> 17, months |-> months]],
        errors |-> IF n = 0 THEN <<"Aucun chauffeur">> ELSE <<>>,
        detectedPeriod |-> det]

PageSheets == {PageSheet(n, det) : n \in 0..MaxDataRows, det \in PageDetections}

RECURSIVE SeqsUpTo(_, _)
SeqsUpTo(S, n) ==
    IF n = 0 THEN {<<>>}
    ELSE LET shorter == SeqsUpTo(S, n - 1)
         IN shorter \cup {Append(q, x) : q \in {r \in shorter : Len(r) = n - 1}, x \in S}

\* what parseExcelFile can return: a global error and no sheet, or 1..MaxSheets sheets
PageParseResults ==
    {[sheets |-> <<>>, globalErrors |-> <<"Impossible de lire le fichier Excel.">>]}
    \cup {[sheets |-> q, globalErrors |-> <<>>] : q \in SeqsUpTo(PageSheets, MaxSheets) \ {<<>>}}

\* the faults the page's model injects in an import: none, or no session
PageFaults ==
    {[i \in 1..MaxSheets |-> NoFault],
     [i \in 1..MaxSheets |-> IF i = 1 THEN [op |-> "auth", batch |-> 1, status |-> FALSE]
                                      ELSE NoFault]}

IdleParser ==
    /\ sheetRows = <<>>
    /\ sheetName = <<>>
    /\ phase = "Idle"
    /\ headerRowIndex = 0
    /\ headers = <<>>
    /\ mapping = NULL
    /\ rowCursor = 0
    /\ sheetResult = NULL

IdleAnalytics ==
    /\ distData = <<>>
    /\ monthlyData = <<>>
    /\ selectedPeriods = <<>>
    /\ analytics = NULL

IdleComparison ==
    /\ summaryData = NULL
    /\ periodComparison = <<>>
    /\ loading = TRUE

IdleTimeValue ==
    /\ timeValue = NULL
    /\ timeResult = NULL

IdleWorkbook ==
    /\ workbook = NULL
    /\ sheetCursor = 0
    /\ fileSheets = <<>>
    /\ fileResult = NULL

IdleFetch ==
    /\ fetchQuery = NULL
    /\ fetchFrom = 0
    /\ fetchCalls = 0
    /\ fetchResults = <<>>
    /\ fetchReturned = FALSE

IdleConcurrent == calls = <<>>

IdleDriverList == driverList = NULL

IdleSelection ==
    /\ selectedDrivers = <<>>
    /\ pendingAdds = <<>>

IdleAwaits ==
    /\ pendingFiles = <<>>
    /\ importCall = NULL

IdleCalls ==
    /\ IdleComparison
    /\ IdleTimeValue
    /\ IdleWorkbook
    /\ IdleFetch
    /\ IdleConcurrent
    /\ IdleDriverList
    /\ IdleSelection
    /\ IdleAwaits

IdlePage ==
    /\ stage = "upload"
    /\ parseResult = NULL
    /\ sheetConfigs = <<>>

IdleDb ==
    /\ db = EmptyDb
    /\ lastImport = NULL

InitPage ==
    /\ clock \in ClockSet
    /\ IdleCalls
    /\ IdlePage
    /\ IdleDb
    /\ IdleAnalytics
    /\ IdleParser

NextPage ==
    \/ \E nameOk \in BOOLEAN, result \in PageParseResults : handleFile(nameOk, result)
    \/ \E index \in 1..MaxSheets, updates \in ConfigUpdates : updateSheetConfig(index, updates)
    \/ handleImportStart
    \/ \E faults \in PageFaults : handleImportFinish(faults)
    \/ backToUpload

SpecPage == InitPage /\ [][NextPage]_vars

\* handleFile alone: one file dropped on the upload stage
NextHandleFile ==
    \E nameOk \in BOOLEAN, result \in PageParseResults : handleFile(nameOk, result)

SpecHandleFile == InitPage /\ [][NextHandleFile]_vars

----------------------------------------------------------------------------
(* Properties of the duplicate-period resolver (SpecPage, SpecHandleFile) *)

\* the step of handleFile that opens the preview
HandleFileDone == stage = "upload" /\ stage' = "preview"

NoDuplicateEnabled(configs) ==
    \A i, j \in DOMAIN configs :
        (i < j /\ configs[i].enabled /\ configs[j].enabled)
            => ConfigKey(configs[i]) # ConfigKey(configs[j])

\* sheets i < j are the only two sheets of the workbook that are enabled
\* before the resolver runs and resolve to their (periodNumber, year)
CollidingPair(sheets, i, j) ==
    LET init == InitialConfigs(sheets)
    IN /\ i < j
       /\ init[i].enabled /\ init[j].enabled
       /\ ConfigKey(init[i]) = ConfigKey(init[j])
       /\ \A k \in DOMAIN sheets \ {i, j} :
            init[k].enabled => ConfigKey(init[k]) # ConfigKey(init[i])

\* C1: after handleFile has resolved the duplicate periods of a parsed
\* workbook, no two enabled sheets have the same (periodNumber, year).
C1_OneEnabledSheetPerPeriod ==
    [][HandleFileDone => NoDuplicateEnabled(sheetConfigs')]_vars

----------------------------------------------------------------------------
(* importData called directly (SpecImport): the server action can be called *)
(* with any sheets; each call runs to its end before the next one starts.   *)

MonthRecord(month, year, counterEnd) ==
    [month |-> month, year |-> year, positiveHours |-> 2, missingHours |-> 1,
     overtimePay |-> 1, counterEnd |-> counterEnd]

DriverRow(code, vehicleType, counterEnd) ==
    [codeSalarie |-> code, vehicleType |-> vehicleType, bufferHours |-> 17,
     months |-> << MonthRecord(1, 2025, counterEnd) >>]

\* parsed rows given to importData: two drivers, the same code twice with
\* different values, another driver with two months
ImportDataSets ==
    { << DriverRow("A", "BUS", 3), DriverRow("B", "CAM", -4) >>,
      << [codeSalarie |-> "A", vehicleType |-> "BUS", bufferHours |-> 17,
          months |-> << MonthRecord(1, 2025, 3), MonthRecord(2, 2025, 3) >>],
         [DriverRow("A", "CAM", 7) EXCEPT !.bufferHours = 12] >>,
      << [codeSalarie |-> "B", vehicleType |-> "BUS", bufferHours |-> 10,
          months |-> << MonthRecord(1, 2025, 5), MonthRecord(2, 2025, 6) >>] >> }

ImportSheetInputs ==
    {[data |-> data, periodNumber |-> n, year |-> 2025] :
        data \in ImportDataSets, n \in {1, 2}}

\* calls with one sheet and calls with two sheets of different rows
ImportInputs ==
    {<<x>> : x \in ImportSheetInputs}
    \cup {p \in ImportSheetInputs \X ImportSheetInputs :
                p[1].data # p[2].data /\ p[1].periodNumber <= p[2].periodNumber}

ImportFaults ==
    {f \in [op : FaultOps \ {"auth"}, batch : {1}, status : BOOLEAN] :
        f.status => f.op \in {"none", "record"}}

\* importData(input) from its call to its return or throw; faults[k] is the
\* fault of the k-th sheet
importDataCall(sheets, faults) ==
    /\ Len(db.imports) + Len(sheets) <= MaxImports
    /\ \E r \in {importData(db, sheets, faults)} :
        /\ db' = r.db
        /\ lastImport' =
            [sheets |-> sheets, threw |-> r.threw, failedAt |-> r.failedAt,
             clean |-> \A k \in DOMAIN sheets : faults[k] = NoFault,
             before |-> db,
             repeated |-> /\ lastImport # NULL
                          /\ lastImport.clean
                          /\ \A k \in DOMAIN sheets : faults[k] = NoFault
                          /\ lastImport.sheets = sheets]
    /\ UNCHANGED <<clock, callVars, pageVars, anVars, parserVars>>

InitImport ==
    /\ clock \in ClockSet
    /\ IdleCalls
    /\ IdlePage
    /\ IdleDb
    /\ IdleAnalytics
    /\ IdleParser

\* the faults of a call: at most one sheet has one
CallFaults(sheets) ==
    {f \in [DOMAIN sheets -> ImportFaults] :
        \A i, j \in DOMAIN sheets : (f[i] # NoFault /\ f[j] # NoFault) => i = j}

NextImport ==
    \E sheets \in ImportInputs :
        \E faults \in CallFaults(sheets) : importDataCall(sheets, faults)

SpecImport == InitImport /\ [][NextImport]_vars

----------------------------------------------------------------------------
(* Properties of importData (SpecImport) *)

\* the monthly records stored for the reference period (year, periodNumber)
PeriodRecords(d, year, periodNumber) ==
    {r \in d.monthly_records :
        \E q \in PeriodRows(d, year, periodNumber) : q.id = r.period_id}

\* a record's (driver, period, month, year) key and its values
RecordValues(r, year, periodNumber) ==
    [driver_id |-> r.driver_id, period |-> <<year, periodNumber>>,
     month |-> r.month, year |-> r.year,
     buffer_hours |-> r.buffer_hours, positive_hours |-> r.positive_hours,
     missing_hours |-> r.missing_hours, overtime_pay |-> r.overtime_pay,
     counter_end |-> r.counter_end]

PeriodValues(d, year, periodNumber) ==
    {RecordValues(r, year, periodNumber) : r \in PeriodRecords(d, year, periodNumber)}

\* C3: a second importData call with the same sheets, right after a first one
\* (both without a storage error), leaves for each period of these sheets the
\* monthly records the first call left: the same keys with the same values,
\* and one record per (driver, period, month, year) key. The import id a
\* record carries is not one of the compared values.
C3_ReimportIdempotent ==
    (lastImport # NULL /\ lastImport.repeated) =>
        \A k \in DOMAIN lastImport.sheets :
            LET y == lastImport.sheets[k].year
                n == lastImport.sheets[k].periodNumber
            IN /\ PeriodValues(db, y, n) = PeriodValues(lastImport.before, y, n)
               /\ \A r1, r2 \in PeriodRecords(db, y, n) :
                    (r1.driver_id = r2.driver_id /\ r1.month = r2.month /\ r1.year = r2.year)
                        => r1 = r2

\* the second of two identical imports has just returned and the period holds records
C3_Witness ==
    /\ lastImport # NULL
    /\ lastImport.repeated
    /\ \E k \in DOMAIN lastImport.sheets :
        /\ PeriodRecords(db, lastImport.sheets[k].year, lastImport.sheets[k].periodNumber) # {}
        /\ \E i, j \in DOMAIN lastImport.sheets[k].data :
            i < j /\ lastImport.sheets[k].data[i].codeSalarie = lastImport.sheets[k].data[j].codeSalarie

----------------------------------------------------------------------------
(* Analytics page (AnalyticsPage): the aggregation over the fetched rows of *)
(* driver_period_summary. A driver's average counter is kept as the pair    *)
(* (counterSum, counterCount).                                              *)

\* driverAvgMap, as an array in the Map's insertion order: one entry per
\* driver_id, in the order of the first row of each driver
GroupByDriver(rows) ==
    LET Missing(c) == IF c < 0 THEN c ELSE 0
        Excess(c, pay) == Max(0, c) + pay
        RowsOf(id) == SelectSeq(rows, LAMBDA r : r.driver_id = id)
        Entry(id) ==
            LET mine == RowsOf(id)
            IN [driverId |-> id,
                counterSum |-> SumSeq([k \in DOMAIN mine |-> mine[k].latest_counter]),
                counterCount |-> Len(mine),
                totalMissing |-> SumSeq([k \in DOMAIN mine |-> Missing(mine[k].latest_counter)]),
                totalExcess |-> SumSeq([k \in DOMAIN mine |->
                                    Excess(mine[k].latest_counter, mine[k].total_overtime_pay)])]
        IsFirst(i) == \A j \in 1..(i - 1) : rows[j].driver_id # rows[i].driver_id
        F[i \in 0..Len(rows)] ==
            IF i = 0 THEN <<>>
            ELSE IF IsFirst(i) THEN Append(F[i - 1], Entry(rows[i].driver_id)) ELSE F[i - 1]
    IN F[Len(rows)]

BUCKET_ORDER == << "< -10h", "-10h a 0h", "0h a 5h", "5h a 10h", "10h a 15h", "> 15h" >>

\* BUCKET_RANGES; inf marks a bound that is -Infinity (min) or Infinity (max)
BUCKET_RANGES ==
    [b \in Range(BUCKET_ORDER) |->
        CASE b = "< -10h"    -> [minInf |-> TRUE,  min |-> 0,   maxInf |-> FALSE, max |-> -10]
          [] b = "-10h a 0h" -> [minInf |-> FALSE, min |-> -10, maxInf |-> FALSE, max |-> 0]
          [] b = "0h a 5h"   -> [minInf |-> FALSE, min |-> 0,   maxInf |-> FALSE, max |-> 5]
          [] b = "5h a 10h"  -> [minInf |-> FALSE, min |-> 5,   maxInf |-> FALSE, max |-> 10]
          [] b = "10h a 15h" -> [minInf |-> FALSE, min |-> 10,  maxInf |-> FALSE, max |-> 15]
          [] b = "> 15h"     -> [minInf |-> FALSE, min |-> 15,  maxInf |-> TRUE,  max |-> 0]]

\* a bucket test that closes each range on the right
RangeMatchesClosedRight(range, num, den) ==
    /\ (range.minInf \/ num > range.min * den)
    /\ (range.maxInf \/ num <= range.max * den)

\* (range.min === -Infinity || value >= range.min) &&
\* (range.max === Infinity || value < range.max), for value = num / den, den > 0
RangeMatches(range, num, den) ==
    /\ (range.minInf \/ num >= range.min * den)
    /\ (range.maxInf \/ num < range.max * den)

\* getBucket(value) for value = num / den: the first bucket of BUCKET_ORDER
\* whose range matches, "> 15h" when none does
getBucket(num, den) ==
    LET matching == {k \in DOMAIN BUCKET_ORDER :
                        RangeMatches(BUCKET_RANGES[BUCKET_ORDER[k]], num, den)}
    IN IF matching = {} THEN "> 15h"
       ELSE BUCKET_ORDER[CHOOSE k \in matching : \A m \in matching : k <= m]

\* bucketCounts after driverAvgMap.forEach
BucketCounts(buckets) ==
    [b \in Range(BUCKET_ORDER) |-> Cardinality({i \in DOMAIN buckets : buckets[i] = b})]

\* a distribution that keeps the empty buckets
DistributionUnfiltered(bucketCounts) ==
    [k \in DOMAIN BUCKET_ORDER |-> [bucket |-> BUCKET_ORDER[k], count |-> bucketCounts[BUCKET_ORDER[k]]]]

\* BUCKET_ORDER.map((bucket) => ({ bucket, count })).filter((d) => d.count > 0)
Distribution(bucketCounts) ==
    SelectSeq([k \in DOMAIN BUCKET_ORDER |->
                  [bucket |-> BUCKET_ORDER[k], count |-> bucketCounts[BUCKET_ORDER[k]]]],
              LAMBDA d : d.count > 0)

\* a top-N that rounds down
TopNFloor(totalDriverCount) == Max(1, totalDriverCount \div 10)

\* Math.max(1, Math.ceil(totalDriverCount * 0.1))
TopN(totalDriverCount) == Max(1, (totalDriverCount + 9) \div 10)

\* [...arr].sort(cmp) for cmp = ascending (or descending) key: the stable order
\* keys[i] is the sort key of arr[i]
StableSort(arr, keys, ascending) ==
    LET Before(i, j) ==
            \/ (IF ascending THEN keys[i] < keys[j] ELSE keys[i] > keys[j])
            \/ (keys[i] = keys[j] /\ i < j)
        pos == [i \in DOMAIN arr |-> 1 + Cardinality({j \in DOMAIN arr : Before(j, i)})]
    IN [k \in DOMAIN arr |-> arr[CHOOSE i \in DOMAIN arr : pos[i] = k]]

\* criticalMissingIds: the first topN drivers with totalMissing < 0, most negative first
CriticalMissingIds(driverAverages, topN) ==
    LET candidates == SelectSeq(driverAverages, LAMBDA d : d.totalMissing < 0)
        sortedByMissing ==
            StableSort(candidates, [i \in DOMAIN candidates |-> candidates[i].totalMissing], TRUE)
    IN {e.driverId : e \in Range(Slice0(sortedByMissing, topN))}

\* criticalExcessIds: the first topN drivers with totalExcess > 0, highest first
CriticalExcessIds(driverAverages, topN) ==
    LET candidates == SelectSeq(driverAverages, LAMBDA d : d.totalExcess > 0)
        sortedByExcess ==
            StableSort(candidates, [i \in DOMAIN candidates |-> candidates[i].totalExcess], FALSE)
    IN {e.driverId : e \in Range(Slice0(sortedByExcess, topN))}

\* a critical count that looks at the most-missing set only
CriticalCountMissingOnly(driverAverages, missingIds, excessIds) ==
    Cardinality({i \in DOMAIN driverAverages : driverAverages[i].driverId \in missingIds})

\* criticalCount after driverAverages.forEach
CriticalCount(driverAverages, missingIds, excessIds) ==
    Cardinality({i \in DOMAIN driverAverages :
        driverAverages[i].driverId \in missingIds \/ driverAverages[i].driverId \in excessIds})

\* normalCount after driverAverages.forEach
NormalCount(driverAverages, missingIds, excessIds) ==
    Cardinality({i \in DOMAIN driverAverages :
        ~(driverAverages[i].driverId \in missingIds \/ driverAverages[i].driverId \in excessIds)})

\* PERIOD_END_MONTHS = new Set(PERIODS.map((p) => p.endMonth))
PERIOD_END_MONTHS == {PERIODS[i].endMonth : i \in DOMAIN PERIODS}

\* a period-end test that holds for every month
IsPeriodEndAlways(month) == TRUE

\* const isPeriodEnd = PERIOD_END_MONTHS.has(month)
IsPeriodEnd(month) == month \in PERIOD_END_MONTHS

\* the slots in the order of their key `${year}-${month padded to 2}`
RECURSIVE SortedSlots(_)
SortedSlots(S) ==
    IF S = {} THEN <<>>
    ELSE LET first == CHOOSE x \in S : \A y \in S :
                        x.year < y.year \/ (x.year = y.year /\ x.month <= y.month)
         IN <<first>> \o SortedSlots(S \ {first})

\* allMonthSlots: the months of the selected periods, each (year, month) once,
\* sorted by key; a period number that PERIODS does not hold gives no slot
AllMonthSlots(selected) ==
    SortedSlots(UNION {{[year |-> selected[i].year, month |-> m] :
                            m \in Range(FindPeriod(selected[i].period_number).months)} :
                        i \in {j \in DOMAIN selected :
                                FindPeriod(selected[j].period_number) # NULL}})

\* grouped.get(key): the fetched monthly records of the slot
GroupedMonth(rows, slot) ==
    SelectSeq(rows, LAMBDA r : r.year = slot.year /\ r.month = slot.month)

\* data.counters.filter((c) => c > 0).reduce((a, b) => a + b, 0)
PositiveCounters(data) ==
    SumSeq([k \in DOMAIN data |-> IF data[k].counter_end > 0 THEN data[k].counter_end ELSE 0])

\* data.counters.filter((c) => c < 0).reduce((a, b) => a + Math.abs(b), 0)
NegativeCounters(data) ==
    SumSeq([k \in DOMAIN data |-> IF data[k].counter_end < 0 THEN Abs(data[k].counter_end) ELSE 0])

\* one entry of monthlyAvg; moyenne is the quotient moyenneSum / moyenneCount, the
\* 0 of a slot without data being 0 / 1
MonthlyAvgEntry(data, slot) ==
    [month |-> slot.month, year |-> slot.year,
     moyenneSum |-> SumSeq([k \in DOMAIN data |-> data[k].counter_end]),
     moyenneCount |-> IF data # <<>> THEN Len(data) ELSE 1,
     heuresPayees |-> SumSeq([k \in DOMAIN data |-> data[k].overtime_pay])
                      + (IF IsPeriodEnd(slot.month) THEN PositiveCounters(data) ELSE 0),
     heuresManquantes |-> SumSeq([k \in DOMAIN data |-> data[k].missing_hours])
                          + (IF IsPeriodEnd(slot.month) THEN NegativeCounters(data) ELSE 0)]

\* a monthlyAvg that divides by the number of records of the slot whatever it is
MonthlyAvgUnguarded(rows, slots) ==
    [i \in DOMAIN slots |->
        [MonthlyAvgEntry(GroupedMonth(rows, slots[i]), slots[i])
            EXCEPT !.moyenneCount = Len(GroupedMonth(rows, slots[i]))]]

\* monthlyAvg: one entry per slot (all zero when no record was fetched)
MonthlyAvg(rows, slots) ==
    [i \in DOMAIN slots |->
        IF Len(rows) > 0 THEN MonthlyAvgEntry(GroupedMonth(rows, slots[i]), slots[i])
        ELSE [month |-> slots[i].month, year |-> slots[i].year, moyenneSum |-> 0,
              moyenneCount |-> 1, heuresPayees |-> 0, heuresManquantes |-> 0]]

MAX_MONTHLY_HOURS == 200

\* values.filter((v) => v <= MAX_MONTHLY_HOURS).reduce((a, b) => a + b, 0)
CappedSum(values) ==
    SumSeq([k \in DOMAIN values |-> IF values[k] <= MAX_MONTHLY_HOURS THEN values[k] ELSE 0])

\* monthlyHours: one entry per slot
MonthlyHours(rows, slots) ==
    [i \in DOMAIN slots |->
        [month |-> slots[i].month, year |-> slots[i].year,
         heuresPositives |->
            CappedSum([k \in DOMAIN GroupedMonth(rows, slots[i]) |->
                          GroupedMonth(rows, slots[i])[k].positive_hours]),
         heuresNegatives |->
            CappedSum([k \in DOMAIN GroupedMonth(rows, slots[i]) |->
                          GroupedMonth(rows, slots[i])[k].missing_hours]),
         driverCount |-> Len(GroupedMonth(rows, slots[i]))]]

\* The page's computation, from the fetched rows to the props of AnalyticsClient
AnalyticsPage ==
    /\ analytics = NULL
    /\ LET driverAverages == GroupByDriver(distData)
           buckets == [i \in DOMAIN driverAverages |->
                          getBucket(driverAverages[i].counterSum, driverAverages[i].counterCount)]
           topN == TopN(Len(driverAverages))
           missingIds == CriticalMissingIds(driverAverages, topN)
           excessIds == CriticalExcessIds(driverAverages, topN)
           criticalCount == CriticalCount(driverAverages, missingIds, excessIds)
           normalCount == NormalCount(driverAverages, missingIds, excessIds)
       IN analytics' =
            [driverAverages |-> driverAverages,
             buckets |-> buckets,
             distribution |-> Distribution(BucketCounts(buckets)),
             topN |-> topN,
             criticalMissingIds |-> missingIds,
             criticalExcessIds |-> excessIds,
             criticalCount |-> criticalCount,
             normalCount |-> normalCount,
             criticalDriverIds |-> missingIds \cup excessIds,
             monthlyAvg |-> MonthlyAvg(monthlyData, AllMonthSlots(selectedPeriods)),
             monthlyHours |-> MonthlyHours(monthlyData, AllMonthSlots(selectedPeriods)),
             statusBreakdown |->
                (IF normalCount > 0 THEN << [name |-> "Normal", value |-> normalCount] >> ELSE <<>>)
                \o (IF criticalCount > 0 THEN << [name |-> "Critique", value |-> criticalCount] >>
                    ELSE <<>>)]
    /\ UNCHANGED <<clock, callVars, pageVars, dbVars, distData, monthlyData, selectedPeriods,
                   parserVars>>

----------------------------------------------------------------------------
(* The analytics page's environment (SpecAnalytics): the rows the paginated *)
(* fetch of driver_period_summary returned, one row per (driver, period).   *)

SummaryValues ==
    { <<-11, 0>>, <<-10, 0>>, <<0, 0>>, <<5, 3>>, <<10, 0>>, <<15, 0>>, <<16, 3>> }

SummaryRows ==
    {[driver_id |-> id, latest_counter |-> v[1], total_overtime_pay |-> v[2]] :
        id \in 1..MaxSummaryRows, v \in SummaryValues}

\* n further drivers with one row each and no overtime pay: of every four,
\* one has a counter of -3, one a counter of 2, two a counter of 0
PadCounter(i) == IF i % 4 = 1 THEN -3 ELSE IF i % 4 = 0 THEN 2 ELSE 0

PadRows(n) ==
    [i \in 1..n |->
        [driver_id |-> 100 + i, latest_counter |-> PadCounter(i), total_overtime_pay |-> 0]]

\* driver ids are labels: the drivers of the free rows are numbered in the
\* order of their first row
NumberedInOrder(rows) ==
    \A i \in DOMAIN rows :
        rows[i].driver_id <= 1 + Cardinality({rows[j].driver_id : j \in 1..(i - 1)})

AnalyticsInputs ==
    {base \o PadRows(n) :
        base \in {q \in SeqsUpTo(SummaryRows, MaxSummaryRows) : NumberedInOrder(q)},
        n \in {0, PadDrivers}}

InitAnalytics ==
    /\ clock \in ClockSet
    /\ IdleCalls
    /\ IdlePage
    /\ IdleDb
    /\ IdleParser
    /\ distData \in AnalyticsInputs
    /\ monthlyData = <<>>
    /\ selectedPeriods = <<>>
    /\ analytics = NULL

NextAnalytics == AnalyticsPage

SpecAnalytics == InitAnalytics /\ [][NextAnalytics]_vars

----------------------------------------------------------------------------
(* Properties of the aggregation (SpecAnalytics) *)

DistinctDrivers == {distData[i].driver_id : i \in DOMAIN distData}

\* the smallest k >= 1 with 10 * k >= n: max(1, ceil(n * 0.1))
IsTenPercent(k, n) == k >= 1 /\ 10 * k >= n /\ (k = 1 \/ 10 * (k - 1) < n)

ClosedRightBucket(num, den) ==
    IF num <= -10 * den THEN "< -10h"
    ELSE IF num <= 0 THEN "-10h a 0h"
    ELSE IF num <= 5 * den THEN "0h a 5h"
    ELSE IF num <= 10 * den THEN "5h a 10h"
    ELSE IF num <= 15 * den THEN "10h a 15h"
    ELSE "> 15h"

\* the bucket of value num / den when every range is closed on the left and
\* open on the right
ClosedLeftBucket(num, den) ==
    IF num < -10 * den THEN "< -10h"
    ELSE IF num < 0 THEN "-10h a 0h"
    ELSE IF num < 5 * den THEN "0h a 5h"
    ELSE IF num < 10 * den THEN "5h a 10h"
    ELSE IF num < 15 * den THEN "10h a 15h"
    ELSE "> 15h"

\* C5 as stated: a counter value v goes to the bucket whose range is open on
\* the left and closed on the right (v <= -10 first bucket, -10 < v <= 0
\* second, ..., v > 15 sixth).
C5_Original ==
    analytics # NULL =>
        \A i \in DOMAIN analytics.driverAverages :
            analytics.buckets[i] =
                ClosedRightBucket(analytics.driverAverages[i].counterSum,
                                  analytics.driverAverages[i].counterCount)

\* C5 amended: a counter value v goes to the bucket whose range is closed on
\* the left and open on the right: v < -10 first bucket, -10 <= v < 0 second,
\* 0 <= v < 5 third, 5 <= v < 10 fourth, 10 <= v < 15 fifth, v >= 15 sixth; a
\* value equal to -10, 0, 5, 10 or 15 falls in the bucket of which it is the
\* lower bound.
C5_BucketRanges ==
    analytics # NULL =>
        \A i \in DOMAIN analytics.driverAverages :
            analytics.buckets[i] =
                ClosedLeftBucket(analytics.driverAverages[i].counterSum,
                                 analytics.driverAverages[i].counterCount)

\* the five boundary values have each been bucketed in one computation or another;
\* here: a driver whose value is exactly 5 sits in "5h a 10h" next to one at -10
C5_Witness ==
    /\ analytics # NULL
    /\ \E i, j \in DOMAIN analytics.driverAverages :
        /\ analytics.driverAverages[i].counterSum = 5 * analytics.driverAverages[i].counterCount
        /\ analytics.buckets[i] = "5h a 10h"
        /\ analytics.driverAverages[j].counterSum = -10 * analytics.driverAverages[j].counterCount
        /\ analytics.buckets[j] = "-10h a 0h"

\* the counters of the rows of driver id, in the order fetched
CountersOf(id) ==
    LET mine == SelectSeq(distData, LAMBDA r : r.driver_id = id)
    IN [k \in DOMAIN mine |-> mine[k].latest_counter]

\* position of a bucket label in the fixed order
BucketIndex(b) == CHOOSE k \in DOMAIN BUCKET_ORDER : BUCKET_ORDER[k] = b

\* C6: every distinct driver is counted in exactly one of the six buckets, by
\* the average of its counters over the supplied rows; the bucket counts sum
\* to the number of distinct drivers; the output lists only the buckets with
\* a non-zero count, in the fixed bucket order.
C6_BucketsPartitionDrivers ==
    analytics # NULL =>
        LET avgs == analytics.driverAverages
            dist == analytics.distribution
            InBucket(i, b) == RangeMatches(BUCKET_RANGES[b], avgs[i].counterSum, avgs[i].counterCount)
        IN /\ {avgs[i].driverId : i \in DOMAIN avgs} = DistinctDrivers
           /\ Len(avgs) = Cardinality(DistinctDrivers)
           /\ \A i \in DOMAIN avgs :
                /\ avgs[i].counterSum = SumSeq(CountersOf(avgs[i].driverId))
                /\ avgs[i].counterCount = Len(CountersOf(avgs[i].driverId))
                /\ Cardinality({b \in Range(BUCKET_ORDER) : InBucket(i, b)}) = 1
           /\ \A b \in Range(BUCKET_ORDER) :
                LET n == Cardinality({i \in DOMAIN avgs : InBucket(i, b)})
                IN IF n = 0
                   THEN \A k \in DOMAIN dist : dist[k].bucket # b
                   ELSE \E k \in DOMAIN dist : dist[k].bucket = b /\ dist[k].count = n
           /\ SumSeq([k \in DOMAIN dist |-> dist[k].count]) = Cardinality(DistinctDrivers)
           /\ \A k \in DOMAIN dist : dist[k].count > 0
           /\ \A k, m \in DOMAIN dist :
                k < m => BucketIndex(dist[k].bucket) < BucketIndex(dist[m].bucket)

\* drivers in three different buckets, one of them averaged over two rows
C6_Witness ==
    /\ analytics # NULL
    /\ Len(analytics.distribution) = 3
    /\ Len(analytics.driverAverages) > 1
    /\ \E i \in DOMAIN analytics.driverAverages :
        /\ analytics.driverAverages[i].counterCount = 2
        /\ analytics.driverAverages[i].counterSum = -21

\* C7: every driver is either critical or normal: it is critical exactly when
\* it is in the most-missing set or in the highest-excess set, the reported
\* critical ids are the union of the two sets, and criticalCount + normalCount
\* is the number of distinct drivers.
C7_CriticalOrNormal ==
    analytics # NULL =>
        LET critical == analytics.criticalMissingIds \cup analytics.criticalExcessIds
        IN /\ analytics.criticalDriverIds = critical
           /\ critical \subseteq DistinctDrivers
           /\ analytics.criticalCount = Cardinality(critical)
           /\ analytics.normalCount = Cardinality(DistinctDrivers \ critical)
           /\ analytics.criticalCount + analytics.normalCount = Cardinality(DistinctDrivers)

\* one driver critical by its excess only, one by its missing hours only, the others normal
C7_Witness ==
    /\ analytics # NULL
    /\ analytics.criticalCount = 2
    /\ analytics.normalCount >= 1
    /\ analytics.criticalMissingIds # {}
    /\ analytics.criticalExcessIds # {}
    /\ analytics.criticalMissingIds \cap analytics.criticalExcessIds = {}

----------------------------------------------------------------------------
(* excel-parser.ts: text. A string is the sequence of its characters.       *)

UpperCase ==
    <<"A", "B", "C", "D", "E", "F", "G", "H", "I", "J", "K", "L", "M",
      "N", "O", "P", "Q", "R", "S", "T", "U", "V", "W", "X", "Y", "Z">>

LowerCase ==
    <<"a", "b", "c", "d", "e", "f", "g", "h", "i", "j", "k", "l", "m",
      "n", "o", "p", "q", "r", "s", "t", "u", "v", "w", "x", "y", "z">>

Digits == <<"0", "1", "2", "3", "4", "5", "6", "7", "8", "9">>

\* the letters with a diacritic that the texts of the model use
AccentedUpper == <<"É", "È", "Ê", "À", "Û", "Ô", "Ç">>

AccentedLower == <<"é", "è", "ê", "à", "û", "ô", "ç">>

\* the base letter that is left of an accented one once NFD has split the
\* diacritic off and the diacritic is removed
BaseLetter == <<"e", "e", "e", "a", "u", "o", "c">>

WhiteSpace == {" "}

UpperLetters == Range(UpperCase)

AccentedUpperLetters == Range(AccentedUpper)

AccentedLowerLetters == Range(AccentedLower)

\* \d of a regular expression
DigitChars == Range(Digits)

\* \w of a regular expression without the u flag
WordChars == Range(UpperCase) \cup Range(LowerCase) \cup Range(Digits) \cup {"_"}

\* [\d.\-]
NumericChars == Range(Digits) \cup {".", "-"}

IndexOf(seq, c) == CHOOSE i \in DOMAIN seq : seq[i] = c

SetMin(S) == CHOOSE x \in S : \A y \in S : x <= y

SetMax(S) == CHOOSE x \in S : \A y \in S : y <= x

\* String.prototype.toLowerCase
toLowerCase(text) ==
    [i \in DOMAIN text |->
        IF text[i] \in UpperLetters THEN LowerCase[IndexOf(UpperCase, text[i])]
        ELSE IF text[i] \in AccentedUpperLetters
             THEN AccentedLower[IndexOf(AccentedUpper, text[i])]
             ELSE text[i]]

\* .normalize("NFD").replace(/[\u0300-\u036f]/g, "")
RemoveDiacritics(text) ==
    [i \in DOMAIN text |->
        IF text[i] \in AccentedLowerLetters THEN BaseLetter[IndexOf(AccentedLower, text[i])]
        ELSE IF text[i] \in AccentedUpperLetters
             THEN UpperCase[IndexOf(LowerCase, BaseLetter[IndexOf(AccentedUpper, text[i])])]
             ELSE text[i]]

\* String.prototype.trim
Trim(text) ==
    IF \A i \in DOMAIN text : text[i] \in WhiteSpace THEN <<>>
    ELSE SubSeq(text, SetMin({i \in DOMAIN text : text[i] \notin WhiteSpace}),
                      SetMax({i \in DOMAIN text : text[i] \notin WhiteSpace}))

normalizeText(text) == Trim(RemoveDiacritics(toLowerCase(text)))

\* String.prototype.includes
includes(text, part) ==
    \E o \in 1..(Len(text) - Len(part) + 1) : SubSeq(text, o, o + Len(part) - 1) = part

IsWordAt(text, i) == i \in DOMAIN text /\ text[i] \in WordChars

\* \b between text[i] and text[i + 1] (i = 0: the start, i = Len(text): the end)
WordBoundary(text, i) == IsWordAt(text, i) # IsWordAt(text, i + 1)

\* new RegExp(`\\b${word}\\b`).test(text), for a word made of letters
MatchesWord(text, word) ==
    \E o \in 1..(Len(text) - Len(word) + 1) :
        /\ SubSeq(text, o, o + Len(word) - 1) = word
        /\ WordBoundary(text, o - 1)
        /\ WordBoundary(text, o + Len(word) - 1)

AllDigits(text) == \A i \in DOMAIN text : text[i] \in DigitChars

DigitValue(c) == IndexOf(Digits, c) - 1

\* parseInt of a string of digits
RECURSIVE ToNat(_)
ToNat(digits) ==
    IF digits = <<>> THEN 0
    ELSE 10 * ToNat(SubSeq(digits, 1, Len(digits) - 1)) + DigitValue(digits[Len(digits)])

RECURSIVE DigitsOf(_)
DigitsOf(n) ==
    IF n < 10 THEN <<Digits[n + 1]>> ELSE Append(DigitsOf(n \div 10), Digits[(n % 10) + 1])

RECURSIVE Pow10(_)
Pow10(k) == IF k = 0 THEN 1 ELSE 10 * Pow10(k - 1)

----------------------------------------------------------------------------
(* excel-parser.ts: cells. A cell of the grid sheet_to_json returns is      *)
(* undefined (no value), a string or a number. Numbers, and the hours       *)
(* parseTimeValue returns, are counted in sixtieths (1/60): n stands for    *)
(* n/60, so that H:MM times and half hours are integers.                    *)

Undefined == [kind |-> "undefined", chars |-> <<>>, sixtieths |-> 0]

StringCell(chars) == [kind |-> "string", chars |-> chars, sixtieths |-> 0]

NumberCell(n) == [kind |-> "number", chars |-> <<>>, sixtieths |-> n]

\* the cell of a whole number k
WholeCell(k) == NumberCell(60 * k)

\* row[i] for a 0-based i: undefined outside the array
CellAt(row, i) == IF i >= 0 /\ i < Len(row) THEN row[i + 1] ELSE Undefined

\* the value counts as true in `c || ""`: not undefined, not "", not 0
Truthy(cell) ==
    \/ cell.kind = "string" /\ cell.chars # <<>>
    \/ cell.kind = "number" /\ cell.sixtieths # 0

\* the decimals of r/60 (0 < r < 60), cut after `places` digits
RECURSIVE Decimals(_, _)
Decimals(r, places) ==
    IF r = 0 \/ places = 0 THEN <<>>
    ELSE <<Digits[((10 * r) \div 60) + 1]>> \o Decimals((10 * r) % 60, places - 1)

DecimalPlaces == 16     \* decimals written for a number that is not whole

\* String(n) for a number: sign, whole part, and the decimals if there are any
NumberToString(n) ==
    (IF n < 0 THEN <<"-">> ELSE <<>>)
    \o DigitsOf(Abs(n) \div 60)
    \o (IF Abs(n) % 60 = 0 THEN <<>> ELSE <<".">> \o Decimals(Abs(n) % 60, DecimalPlaces))

\* String(c || "")
StringOrEmpty(cell) ==
    IF ~Truthy(cell) THEN <<>>
    ELSE IF cell.kind = "string" THEN cell.chars
    ELSE NumberToString(cell.sixtieths)

\* value === null || value === undefined || value === ""
IsEmptyValue(cell) ==
    cell.kind = "undefined" \/ (cell.kind = "string" /\ cell.chars = <<>>)

\* .replace(",", "."): the first comma only
ReplaceFirstComma(text) ==
    IF \A i \in DOMAIN text : text[i] # "," THEN text
    ELSE [text EXCEPT ![SetMin({i \in DOMAIN text : text[i] = ","})] = "."]

\* .replace(/[^\d.\-]/g, "")
KeepNumeric(text) == SelectSeq(text, LAMBDA c : c \in NumericChars)

\* the number of digits text starts with
DigitPrefixLen(text) ==
    CHOOSE k \in 0..Len(text) :
        /\ \A i \in 1..k : text[i] \in DigitChars
        /\ k = Len(text) \/ text[k + 1] \notin DigitChars

\* parseFloat of an unsigned text of digits, "." and "-": the longest prefix
\* digits [. digits]; nan when that prefix holds no digit. A decimal part
\* finer than a sixtieth is cut.
UnsignedFloat(body) ==
    LET ni == DigitPrefixLen(body)
        rest == SubSeq(body, ni + 1, Len(body))
        nf == IF rest # <<>> /\ rest[1] = "." THEN DigitPrefixLen(Tail(rest)) ELSE 0
    IN [nan |-> ni + nf = 0,
        sixtieths |-> 60 * ToNat(SubSeq(body, 1, ni))
                      + (60 * ToNat(SubSeq(rest, 2, nf + 1))) \div Pow10(nf)]

\* parseFloat of a text of digits, "." and "-"
parseFloat(text) ==
    IF text # <<>> /\ text[1] = "-"
    THEN [nan |-> UnsignedFloat(Tail(text)).nan,
          sixtieths |-> -UnsignedFloat(Tail(text)).sixtieths]
    ELSE UnsignedFloat(text)

NumericOfText(parsed) == IF parsed.nan THEN 0 ELSE parsed.sixtieths

parseNumericValue(cell) ==
    IF IsEmptyValue(cell) THEN 0
    ELSE IF cell.kind = "number" THEN cell.sixtieths
    ELSE NumericOfText(parseFloat(KeepNumeric(ReplaceFirstComma(cell.chars))))

\* str.match(/^(-?\d+):(\d+)$/)
IsTimeText(str) ==
    /\ Cardinality({p \in DOMAIN str : str[p] = ":"}) = 1
    /\ LET p == IndexOf(str, ":")
           hourDigits == IF p > 1 /\ str[1] = "-" THEN SubSeq(str, 2, p - 1)
                         ELSE SubSeq(str, 1, p - 1)
           minuteDigits == SubSeq(str, p + 1, Len(str))
       IN /\ hourDigits # <<>> /\ AllDigits(hourDigits)
          /\ minuteDigits # <<>> /\ AllDigits(minuteDigits)

\* sign * (Math.abs(hours) + minutes / 60) with hours = parseInt(group 1),
\* sign = hours < 0 ? -1 : 1: "-0" parses to a zero that is not < 0
TimeOfText(str) ==
    LET p == IndexOf(str, ":")
        negative == str[1] = "-"
        hours == ToNat(SubSeq(str, IF negative THEN 2 ELSE 1, p - 1))
        minutes == ToNat(SubSeq(str, p + 1, Len(str)))
    IN (IF negative /\ hours > 0 THEN -1 ELSE 1) * (60 * hours + minutes)

\* a time value that takes the numbers up to 1 as fractions of a day
parseTimeValueClosed(cell) ==
    IF IsEmptyValue(cell) THEN 0
    ELSE IF cell.kind = "number"
         THEN (IF Abs(cell.sixtieths) <= 60 THEN cell.sixtieths * 24 ELSE cell.sixtieths)
    ELSE IF IsTimeText(Trim(cell.chars)) THEN TimeOfText(Trim(cell.chars))
    ELSE parseNumericValue(cell)

parseTimeValue(cell) ==
    IF IsEmptyValue(cell) THEN 0
    ELSE IF cell.kind = "number"
         THEN (IF Abs(cell.sixtieths) < 60 THEN cell.sixtieths * 24 ELSE cell.sixtieths)
    ELSE IF IsTimeText(Trim(cell.chars)) THEN TimeOfText(Trim(cell.chars))
    ELSE parseNumericValue(cell)

----------------------------------------------------------------------------
(* excel-parser.ts: detectColumns. Column indexes are 0-based as in the     *)
(* source; NoCol stands for the null of a month entry's column and for the  *)
(* -1 of a column not found, NoMonth for the null of detectMonthFromHeader. *)

NoCol == -1

NoMonth == 0

\* Object.entries(FRENCH_MONTH_MAP), in the order of the literal
FRENCH_MONTH_MAP ==
    << [key |-> <<"j", "a", "n", "v", "i", "e", "r">>, month |-> 1],
       [key |-> <<"j", "a", "n", "v">>, month |-> 1],
       [key |-> <<"j", "a", "n">>, month |-> 1],
       [key |-> <<"f", "e", "v", "r", "i", "e", "r">>, month |-> 2],
       [key |-> <<"f", "e", "v">>, month |-> 2],
       [key |-> <<"f", "e", "b">>, month |-> 2],
       [key |-> <<"f", "é", "v", "r", "i", "e", "r">>, month |-> 2],
       [key |-> <<"m", "a", "r", "s">>, month |-> 3],
       [key |-> <<"m", "a", "r">>, month |-> 3],
       [key |-> <<"a", "v", "r", "i", "l">>, month |-> 4],
       [key |-> <<"a", "v", "r">>, month |-> 4],
       [key |-> <<"a", "p", "r">>, month |-> 4],
       [key |-> <<"m", "a", "i">>, month |-> 5],
       [key |-> <<"j", "u", "i", "n">>, month |-> 6],
       [key |-> <<"j", "u", "n">>, month |-> 6],
       [key |-> <<"j", "u", "i", "l", "l", "e", "t">>, month |-> 7],
       [key |-> <<"j", "u", "i", "l">>, month |-> 7],
       [key |-> <<"j", "u", "l">>, month |-> 7],
       [key |-> <<"a", "o", "u", "t">>, month |-> 8],
       [key |-> <<"a", "o", "û", "t">>, month |-> 8],
       [key |-> <<"a", "o", "u">>, month |-> 8],
       [key |-> <<"s", "e", "p", "t", "e", "m", "b", "r", "e">>, month |-> 9],
       [key |-> <<"s", "e", "p", "t">>, month |-> 9],
       [key |-> <<"s", "e", "p">>, month |-> 9],
       [key |-> <<"o", "c", "t", "o", "b", "r", "e">>, month |-> 10],
       [key |-> <<"o", "c", "t">>, month |-> 10],
       [key |-> <<"n", "o", "v", "e", "m", "b", "r", "e">>, month |-> 11],
       [key |-> <<"n", "o", "v">>, month |-> 11],
       [key |-> <<"d", "e", "c", "e", "m", "b", "r", "e">>, month |-> 12],
       [key |-> <<"d", "e", "c">>, month |-> 12],
       [key |-> <<"d", "é", "c", "e", "m", "b", "r", "e">>, month |-> 12] >>

\* the month of the first key of FRENCH_MONTH_MAP found as a word of the header
detectMonthFromHeader(header) ==
    LET normalized == normalizeText(header)
        found == {k \in DOMAIN FRENCH_MONTH_MAP :
                    MatchesWord(normalized, normalizeText(FRENCH_MONTH_MAP[k].key))}
    IN IF found = {} THEN NoMonth ELSE FRENCH_MONTH_MAP[SetMin(found)].month

\* h.includes("code") && h.includes("salarie")
IsCodeSalarieHeader(h) == includes(h, <<"c", "o", "d", "e">>) /\ includes(h, <<"s", "a", "l", "a", "r", "i", "e">>)

\* (h.includes("bus") && h.includes("cam")) || h.includes("fonction")
IsVehicleTypeHeader(h) ==
    (includes(h, <<"b", "u", "s">>) /\ includes(h, <<"c", "a", "m">>)) \/ includes(h, <<"f", "o", "n", "c", "t", "i", "o", "n">>)

\* h === "10%" || h === "10 %" || h.includes("buffer") || h.includes("10%") || h === "0.1"
IsBufferHeader(h) ==
    \/ h = <<"1", "0", "%">>
    \/ h = <<"1", "0", " ", "%">>
    \/ includes(h, <<"b", "u", "f", "f", "e", "r">>)
    \/ includes(h, <<"1", "0", "%">>)
    \/ h = <<"0", ".", "1">>

\* h.includes("pos") || h.includes("excedent") || h.includes("supp")
IsPositiveHeader(h) ==
    includes(h, <<"p", "o", "s">>) \/ includes(h, <<"e", "x", "c", "e", "d", "e", "n", "t">>) \/ includes(h, <<"s", "u", "p", "p">>)

\* h.includes("manq") || h.includes("deficit") || h.includes("neg")
IsMissingHeader(h) ==
    includes(h, <<"m", "a", "n", "q">>) \/ includes(h, <<"d", "e", "f", "i", "c", "i", "t">>) \/ includes(h, <<"n", "e", "g">>)

\* h.includes("montant") || h.includes("payer")
IsOvertimePayHeader(h) == includes(h, <<"m", "o", "n", "t", "a", "n", "t">>) \/ includes(h, <<"p", "a", "y", "e", "r">>)

\* h.includes("compteur") || h.includes("cumul")
IsCounterEndHeader(h) == includes(h, <<"c", "o", "m", "p", "t", "e", "u", "r">>) \/ includes(h, <<"c", "u", "m", "u", "l">>)

\* h.includes("nom") && (h.includes("prenom") || h.includes("prénom"))
IsNameHeader(h) ==
    includes(h, <<"n", "o", "m">>) /\ (includes(h, <<"p", "r", "e", "n", "o", "m">>) \/ includes(h, <<"p", "r", "é", "n", "o", "m">>))

EmptyMonthEntry(month) ==
    [month |-> month, positiveHoursCol |-> NoCol, missingHoursCol |-> NoCol,
     overtimePayCol |-> NoCol, counterEndCol |-> NoCol]

\* a month entry that keeps its first positive-hours column and drops a second one
AssignMonthColumnNoDuplicate(entry, i, h) ==
    IF IsPositiveHeader(h)
    THEN (IF entry.positiveHoursCol = NoCol THEN [entry EXCEPT !.positiveHoursCol = i]
          ELSE entry)
    ELSE IF IsMissingHeader(h)
    THEN (IF entry.missingHoursCol = NoCol THEN [entry EXCEPT !.missingHoursCol = i] ELSE entry)
    ELSE IF IsOvertimePayHeader(h)
    THEN (IF entry.overtimePayCol = NoCol THEN [entry EXCEPT !.overtimePayCol = i] ELSE entry)
    ELSE IF IsCounterEndHeader(h)
    THEN (IF entry.counterEndCol = NoCol THEN [entry EXCEPT !.counterEndCol = i] ELSE entry)
    ELSE entry

\* the sub-field of the month's entry that column i (normalized header h) fills
AssignMonthColumn(entry, i, h) ==
    IF IsPositiveHeader(h)
    THEN (IF entry.positiveHoursCol = NoCol THEN [entry EXCEPT !.positiveHoursCol = i]
          ELSE IF entry.missingHoursCol = NoCol THEN [entry EXCEPT !.missingHoursCol = i]
          ELSE entry)
    ELSE IF IsMissingHeader(h)
    THEN (IF entry.missingHoursCol = NoCol THEN [entry EXCEPT !.missingHoursCol = i] ELSE entry)
    ELSE IF IsOvertimePayHeader(h)
    THEN (IF entry.overtimePayCol = NoCol THEN [entry EXCEPT !.overtimePayCol = i] ELSE entry)
    ELSE IF IsCounterEndHeader(h)
    THEN (IF entry.counterEndCol = NoCol THEN [entry EXCEPT !.counterEndCol = i] ELSE entry)
    ELSE entry

\* monthColumns, a Map kept as the sequence of its entries in insertion order:
\* if (!monthColumns.has(month)) monthColumns.set(month, { all null })
WithMonthEntry(monthColumns, month) ==
    IF \E k \in DOMAIN monthColumns : monthColumns[k].month = month THEN monthColumns
    ELSE Append(monthColumns, EmptyMonthEntry(month))

\* the month branch of the loop for column i
MonthColumnStep(monthColumns, month, i, h) ==
    IF month = NoMonth THEN monthColumns
    ELSE [k \in DOMAIN WithMonthEntry(monthColumns, month) |->
            IF WithMonthEntry(monthColumns, month)[k].month = month
            THEN AssignMonthColumn(WithMonthEntry(monthColumns, month)[k], i, h)
            ELSE WithMonthEntry(monthColumns, month)[k]]

\* the body of the loop for column i, with h = normalizeText(headers[i])
HeaderStep(m, i, header, h) ==
    IF IsCodeSalarieHeader(h) THEN [m EXCEPT !.codeSalarieCol = i]
    ELSE IF IsVehicleTypeHeader(h) THEN [m EXCEPT !.vehicleTypeCol = i]
    ELSE IF IsBufferHeader(h) THEN [m EXCEPT !.bufferCol = IF @ = NoCol THEN i ELSE @]
    ELSE [m EXCEPT !.monthColumns = MonthColumnStep(@, detectMonthFromHeader(header), i, h)]

\* for (let i = 0; i < headers.length; i++) { ... }
HeaderLoop(hs) ==
    LET M[n \in 0..Len(hs)] ==
            IF n = 0
            THEN [codeSalarieCol |-> NoCol, codeIsName |-> FALSE, vehicleTypeCol |-> NoCol,
                  bufferCol |-> NoCol, monthColumns |-> <<>>]
            ELSE HeaderStep(M[n - 1], n - 1, hs[n], normalizeText(hs[n]))
    IN M[Len(hs)]

\* the columns the "Nom prénom" fallback can take
NameCols(hs) ==
    {i \in 0..(Len(hs) - 1) : IsNameHeader(normalizeText(hs[i + 1]))}

\* an identifier fallback that takes the first column when no header names one
NameFallbackFirstColumn(m, hs) ==
    IF m.codeSalarieCol # NoCol THEN m
    ELSE IF NameCols(hs) # {}
    THEN [m EXCEPT !.codeSalarieCol = SetMin(NameCols(hs)), !.codeIsName = TRUE]
    ELSE [m EXCEPT !.codeSalarieCol = 0, !.codeIsName = TRUE]

\* Fallback: if no "Code salarié" found, the first "Nom prénom" column; NULL if none
NameFallback(m, hs) ==
    IF m.codeSalarieCol # NoCol THEN m
    ELSE IF NameCols(hs) # {}
    THEN [m EXCEPT !.codeSalarieCol = SetMin(NameCols(hs)), !.codeIsName = TRUE]
    ELSE NULL

\* Fallback: if no vehicle type column found by header, the column after the
\* name column, or the column of index 2
VehicleFallback(m, hs) ==
    IF m = NULL THEN NULL
    ELSE IF /\ m.vehicleTypeCol = NoCol
            /\ Len(hs) > m.codeSalarieCol + 1
            /\ (IF m.codeIsName THEN m.codeSalarieCol + 1 ELSE 2) < Len(hs)
    THEN [m EXCEPT !.vehicleTypeCol = IF m.codeIsName THEN m.codeSalarieCol + 1 ELSE 2]
    ELSE m

\* detectColumns(headers): NULL or the ColumnMapping
detectColumns(hs) ==
    VehicleFallback(NameFallback(HeaderLoop(hs), hs), hs)

----------------------------------------------------------------------------
(* excel-parser.ts: period detection.                                       *)

NoYear == 0

\* the months in ascending order: [...months].sort((a, b) => a - b)
RECURSIVE SortedSeq(_)
SortedSeq(S) ==
    IF S = {} THEN <<>> ELSE <<SetMin(S)>> \o SortedSeq(S \ {SetMin(S)})

\* a period detection that takes the block of the largest month
detectPeriodFromLastMonth(months) ==
    IF months = <<>> THEN NULL
    ELSE [periodNumber |-> IF SetMax(Range(months)) >= 1 /\ SetMax(Range(months)) <= 4 THEN 1
                           ELSE IF SetMax(Range(months)) >= 5 /\ SetMax(Range(months)) <= 8 THEN 2
                           ELSE 3,
          year |-> clock.year]

\* detectPeriodFromMonths(months): the block of the smallest month, this year
detectPeriodFromMonths(months) ==
    IF months = <<>> THEN NULL
    ELSE [periodNumber |-> IF SetMin(Range(months)) >= 1 /\ SetMin(Range(months)) <= 4 THEN 1
                           ELSE IF SetMin(Range(months)) >= 5 /\ SetMin(Range(months)) <= 8 THEN 2
                           ELSE 3,
          year |-> clock.year]

\* the first index at or after i of a character that is not white space
SkipSpaces(text, i) ==
    SetMin({j \in i..(Len(text) + 1) : j = Len(text) + 1 \/ text[j] \notin WhiteSpace})

\* the index of the digit [123] that /p(?:eriode)?\s*([123])/ captures when
\* the match starts at o, 0 when there is no match at o
PeriodDigitAt(text, o) ==
    LET DigitAfter(i) ==
            IF SkipSpaces(text, i) <= Len(text) /\ text[SkipSpaces(text, i)] \in {"1", "2", "3"}
            THEN SkipSpaces(text, i) ELSE 0
    IN IF text[o] # "p" THEN 0
       ELSE IF /\ o + 6 <= Len(text)
               /\ SubSeq(text, o + 1, o + 6) = <<"e", "r", "i", "o", "d", "e">>
               /\ DigitAfter(o + 7) # 0
            THEN DigitAfter(o + 7)
       ELSE DigitAfter(o + 1)

\* name.match(/(20\d{2})/): the start of the first match, 0 if none
Year4At(name) ==
    LET hits == {o \in 1..(Len(name) - 3) :
                    /\ name[o] = "2" /\ name[o + 1] = "0"
                    /\ AllDigits(SubSeq(name, o + 2, o + 3))}
    IN IF hits = {} THEN 0 ELSE SetMin(hits)

\* name.match(/\b(\d{2})\b/): the start of the first match, 0 if none
Year2At(name) ==
    LET hits == {o \in 1..(Len(name) - 1) :
                    /\ AllDigits(SubSeq(name, o, o + 1))
                    /\ WordBoundary(name, o - 1)
                    /\ WordBoundary(name, o + 1)}
    IN IF hits = {} THEN 0 ELSE SetMin(hits)

\* the year the sheet name gives: four digits 20xx, else two digits 20..99
SheetNameYear(name) ==
    IF Year4At(name) # 0 THEN ToNat(SubSeq(name, Year4At(name), Year4At(name) + 3))
    ELSE IF /\ Year2At(name) # 0
            /\ ToNat(SubSeq(name, Year2At(name), Year2At(name) + 1)) >= 20
            /\ ToNat(SubSeq(name, Year2At(name), Year2At(name) + 1)) <= 99
    THEN 2000 + ToNat(SubSeq(name, Year2At(name), Year2At(name) + 1))
    ELSE NoYear

\* detectPeriodFromSheetName(name): NULL or [periodNumber, year], year NoYear for null
detectPeriodFromSheetName(name) ==
    LET normalized == normalizeText(name)
        starts == {o \in DOMAIN normalized : PeriodDigitAt(normalized, o) # 0}
    IN IF starts = {} THEN NULL
       ELSE [periodNumber |-> DigitValue(normalized[PeriodDigitAt(normalized, SetMin(starts))]),
             year |-> SheetNameYear(name)]

----------------------------------------------------------------------------
(* excel-parser.ts: parseSheet, in the steps HeaderSearch, ColumnMapping,   *)
(* RowParsing, and its two ends Done and Rejected.                          *)

\* the rows the header search looks at: Math.min(10, rows.length)
HeaderSearchRows == 10

\* row.map((c) => String(c || ""))
RowStrings(row) == [i \in DOMAIN row |-> StringOrEmpty(row[i])]

\* n.includes("code") || (n.includes("nom") && n.includes("prenom"))
LooksLikeHeader(n) ==
    includes(n, <<"c", "o", "d", "e">>) \/ (includes(n, <<"n", "o", "m">>) /\ includes(n, <<"p", "r", "e", "n", "o", "m">>))

\* the 0-based indexes of the rows the header search accepts
HeaderRowCandidates(rows) ==
    {i \in 0..(Min(HeaderSearchRows, Len(rows)) - 1) :
        \E c \in DOMAIN rows[i + 1] : LooksLikeHeader(normalizeText(StringOrEmpty(rows[i + 1][c])))}

\* sheetNamePeriod ? { periodNumber, year: sheetNamePeriod.year || defaultYear } : null
SheetNamePeriodOrNull(sheetNamePeriod, defaultYear) ==
    IF sheetNamePeriod = NULL THEN NULL
    ELSE [periodNumber |-> sheetNamePeriod.periodNumber,
          year |-> IF sheetNamePeriod.year # NoYear THEN sheetNamePeriod.year ELSE defaultYear]

\* a period of the sheet that takes the sheet name's year only with its period number
DetectedPeriodMonthYear(monthPeriod, sheetNamePeriod, defaultYear) ==
    IF monthPeriod # NULL
    THEN [periodNumber |-> monthPeriod.periodNumber, year |-> monthPeriod.year]
    ELSE SheetNamePeriodOrNull(sheetNamePeriod, defaultYear)

\* the period of the sheet: the months' period number first, the sheet name's year first
DetectedPeriod(monthPeriod, sheetNamePeriod, defaultYear) ==
    IF monthPeriod # NULL
    THEN [periodNumber |-> monthPeriod.periodNumber,
          year |-> IF sheetNamePeriod # NULL /\ sheetNamePeriod.year # NoYear
                   THEN sheetNamePeriod.year ELSE monthPeriod.year]
    ELSE SheetNamePeriodOrNull(sheetNamePeriod, defaultYear)

\* Array.from(mapping.monthColumns.keys()).sort((a, b) => a - b)
DetectedMonths(m) ==
    SortedSeq({m.monthColumns[k].month : k \in DOMAIN m.monthColumns})

\* the warnings pushed before the rows are parsed
MappingWarnings(m) ==
    (IF m.codeIsName
     THEN <<"Colonne 'Code salarié' non trouvée - utilisation de 'Nom prénom' comme identifiant.">>
     ELSE <<>>)
    \o (IF m.monthColumns = <<>> THEN <<"Aucune colonne mensuelle détectée.">> ELSE <<>>)

NoCodeSalarieError == "Impossible de détecter la colonne 'Code salarié' ou 'Nom prénom'."

\* rows.length < 2: the sheet is given back at once
HeaderSearchTooShort ==
    /\ phase = "HeaderSearch"
    /\ Len(sheetRows) < 2
    /\ phase' = "Rejected"
    /\ sheetResult' = [sheetName |-> sheetName, data |-> <<>>, errors |-> <<"La feuille ne contient pas assez de données.">>,
                       warnings |-> <<>>, detectedPeriod |-> NULL, detectedMonths |-> <<>>]
    /\ UNCHANGED <<clock, callVars, pageVars, dbVars, anVars, sheetRows, sheetName, headerRowIndex,
                   headers, mapping, rowCursor>>

\* the header row: the first of the first ten rows with a "code" or a "nom
\* prenom" cell, else the first row
HeaderSearch ==
    /\ phase = "HeaderSearch"
    /\ Len(sheetRows) >= 2
    /\ headerRowIndex' = IF HeaderRowCandidates(sheetRows) # {}
                         THEN SetMin(HeaderRowCandidates(sheetRows)) ELSE 0
    /\ headers' = RowStrings(sheetRows[headerRowIndex' + 1])
    /\ phase' = "ColumnMapping"
    /\ UNCHANGED <<clock, callVars, pageVars, dbVars, anVars, sheetRows, sheetName, mapping, rowCursor,
                   sheetResult>>

\* detectColumns(headers) and what parseSheet derives from the mapping
ColumnMapping ==
    /\ phase = "ColumnMapping"
    /\ mapping' = detectColumns(headers)
    /\ IF mapping' = NULL
       THEN /\ phase' = "Rejected"
            /\ sheetResult' =
                [sheetName |-> sheetName, data |-> <<>>, errors |-> <<NoCodeSalarieError>>,
                 warnings |-> <<>>,
                 detectedPeriod |->
                    SheetNamePeriodOrNull(detectPeriodFromSheetName(sheetName), clock.year),
                 detectedMonths |-> <<>>]
            /\ UNCHANGED rowCursor
       ELSE /\ phase' = "RowParsing"
            /\ sheetResult' =
                [sheetName |-> sheetName, data |-> <<>>, errors |-> <<>>,
                 warnings |-> MappingWarnings(mapping'),
                 detectedPeriod |->
                    DetectedPeriod(detectPeriodFromMonths(DetectedMonths(mapping')),
                                   detectPeriodFromSheetName(sheetName), clock.year),
                 detectedMonths |-> DetectedMonths(mapping')]
            /\ rowCursor' = headerRowIndex + 1
    /\ UNCHANGED <<clock, callVars, pageVars, dbVars, anVars, sheetRows, sheetName, headerRowIndex,
                   headers>>

\* const codeSalarie = String(row[mapping.codeSalarieCol] || "").trim()
CodeSalarieOf(row, m) == Trim(StringOrEmpty(CellAt(row, m.codeSalarieCol)))

\* vt.includes("cam") || vt.includes("van") ? "CAM" : "BUS"
VehicleTypeOf(row, m) ==
    IF /\ m.vehicleTypeCol >= 0
       /\ \/ includes(normalizeText(StringOrEmpty(CellAt(row, m.vehicleTypeCol))), <<"c", "a", "m">>)
          \/ includes(normalizeText(StringOrEmpty(CellAt(row, m.vehicleTypeCol))), <<"v", "a", "n">>)
    THEN "CAM" ELSE "BUS"

\* mapping.bufferCol >= 0 ? parseTimeValue(row[mapping.bufferCol]) : 17
BufferHoursOf(row, m) ==
    IF m.bufferCol >= 0 THEN parseTimeValue(CellAt(row, m.bufferCol)) ELSE 17 * 60

\* cols.xCol !== null ? parseTimeValue(row[cols.xCol]) : 0
MonthValue(row, col) == IF col # NoCol THEN parseTimeValue(CellAt(row, col)) ELSE 0

\* the months of a row, in the order of monthColumns
MonthsOf(row, m, year) ==
    [k \in DOMAIN m.monthColumns |->
        [month |-> m.monthColumns[k].month, year |-> year,
         positiveHours |-> MonthValue(row, m.monthColumns[k].positiveHoursCol),
         missingHours |-> MonthValue(row, m.monthColumns[k].missingHoursCol),
         overtimePay |-> MonthValue(row, m.monthColumns[k].overtimePayCol),
         counterEnd |-> MonthValue(row, m.monthColumns[k].counterEndCol)]]

\* const year = detectedPeriod?.year || defaultYear
YearOf(detectedPeriod) ==
    IF detectedPeriod # NULL /\ detectedPeriod.year # NoYear THEN detectedPeriod.year
    ELSE clock.year

ParsedDriverRow(row, m, year) ==
    [codeSalarie |-> CodeSalarieOf(row, m), vehicleType |-> VehicleTypeOf(row, m),
     bufferHours |-> BufferHoursOf(row, m), months |-> MonthsOf(row, m, year)]

\* a row test that also skips the rows with a text, beside the identifier,
\* that is neither a time nor a number
RowIsSkippedMalformed(row, m) ==
    \/ Len(row) = 0
    \/ CodeSalarieOf(row, m) = <<>>
    \/ \E i \in DOMAIN row :
            /\ i - 1 # m.codeSalarieCol
            /\ row[i].kind = "string"
            /\ Trim(row[i].chars) # <<>>
            /\ ~IsTimeText(Trim(row[i].chars))
            /\ parseFloat(KeepNumeric(ReplaceFirstComma(row[i].chars))).nan

\* if (!row || row.length === 0) continue; ... if (!codeSalarie) continue;
RowIsSkipped(row, m) == Len(row) = 0 \/ CodeSalarieOf(row, m) = <<>>

\* one turn of the loop over the data rows: the row at rowCursor
ParseRow ==
    /\ phase = "RowParsing"
    /\ rowCursor < Len(sheetRows)
    /\ sheetResult' =
        IF RowIsSkipped(sheetRows[rowCursor + 1], mapping) THEN sheetResult
        ELSE [sheetResult EXCEPT !.data =
                Append(@, ParsedDriverRow(sheetRows[rowCursor + 1], mapping,
                                          YearOf(sheetResult.detectedPeriod)))]
    /\ rowCursor' = rowCursor + 1
    /\ UNCHANGED <<clock, callVars, pageVars, dbVars, anVars, sheetRows, sheetName, phase,
                   headerRowIndex, headers, mapping>>

\* after the last row: if (data.length === 0) errors.push(...); return
FinishSheet ==
    /\ phase = "RowParsing"
    /\ rowCursor >= Len(sheetRows)
    /\ phase' = "Done"
    /\ sheetResult' = IF sheetResult.data = <<>>
                      THEN [sheetResult EXCEPT !.errors =
                                Append(@, "Aucun chauffeur trouvé dans cette feuille.")]
                      ELSE sheetResult
    /\ UNCHANGED <<clock, callVars, pageVars, dbVars, anVars, sheetRows, sheetName, headerRowIndex,
                   headers, mapping, rowCursor>>

----------------------------------------------------------------------------
(* parseSheet on one sheet (SpecParser): the grids and the sheet names.     *)

MaxHeaderCols == 4      \* columns of a header row
MaxGridRows == 2        \* data rows drawn freely below the header row

\* header cells: the identifier, the name fallback, a vehicle-type header,
\* three hour columns of May, and a vehicle-type header that also names a
\* month and overtime
HeaderTexts ==
    { <<"C", "o", "d", "e", " ", "s", "a", "l", "a", "r", "i", "é">>,
      <<"N", "o", "m", " ", "P", "r", "é", "n", "o", "m">>,
      <<"B", "U", "S", "/", "C", "A", "M">>,
      <<"M", "a", "i", " ", "P", "o", "s">>,
      <<"M", "a", "i", " ", "S", "u", "p", "p">>,
      <<"M", "a", "i", " ", "M", "a", "n", "q">>,
      <<"F", "o", "n", "c", "t", "i", "o", "n", " ", "s", "u", "p", "p", " ", "m", "a", "i">> }

\* the sequences of n different elements of S
RECURSIVE InjectiveSeqs(_, _)
InjectiveSeqs(S, n) ==
    IF n = 0 THEN {<<>>}
    ELSE UNION {{Append(s, x) : x \in S \ Range(s)} : s \in InjectiveSeqs(S, n - 1)}

\* a header row: string cells of different texts
HeaderRows ==
    UNION {{[i \in DOMAIN texts |-> StringCell(texts[i])] : texts \in InjectiveSeqs(HeaderTexts, n)} :
            n \in 1..MaxHeaderCols}

\* a row with the same cell in every column
FullRow(cell) == [i \in 1..MaxHeaderCols |-> cell]

\* the cells of the identifier column: no value, blanks, a code between
\* blanks, the number 0, the number 7
IdentifierCells ==
    {Undefined, StringCell(<<" ", " ">>), StringCell(<<" ", "E", "1", " ">>), WholeCell(0), WholeCell(7)}

\* a data row: idCell in its p-th column, fill elsewhere
DataRow(idCell, p, fill) == [i \in 1..MaxHeaderCols |-> IF i = p THEN idCell ELSE fill]

\* data rows: each identifier cell in the first or the second column of a row
\* without other values, a code in a row of cells "1:30", and the empty row
DataRows ==
    {DataRow(idCell, p, Undefined) : idCell \in IdentifierCells, p \in {1, 2}}
    \cup {DataRow(StringCell(<<" ", "E", "1", " ">>), p, StringCell(<<"1", ":", "3", "0">>)) : p \in {1, 2}}
    \cup {<<>>}

\* texts that are not of the form H:M or -H:M
OtherTexts ==
    { <<>>,
      <<" ">>,
      <<"a", "b", "c">>,
      <<"n", "/", "a">>,
      <<"-">>,
      <<".">>,
      <<":">>,
      <<"1", ":">>,
      <<":", "3">>,
      <<"1", ":", "2", ":", "3">>,
      <<"-", ":", "5">>,
      <<"-", "-", "5">>,
      <<"1", ",", "5">>,
      <<"-", "1", ".", "5">>,
      <<"1", "2", ",", "5", "h">>,
      <<"1", "h", "3", "0">>,
      <<" ", "1", "7", ":", "3", "0", " ">>,
      <<"1", " ", ":", "3", "0">> }

\* cell values: no value, these texts, a few times and a few numbers
ExampleCells ==
    {Undefined}
    \cup {StringCell(t) : t \in OtherTexts}
    \cup {StringCell(<<"1", "7", ":", "3", "0">>), StringCell(<<"-", "2", ":", "1", "5">>),
          StringCell(<<"0", ":", "0", "0">>), StringCell(<<"-", "0", ":", "3", "0">>)}
    \cup {NumberCell(n) : n \in {-90, -60, -30, 0, 30, 60, 750}}

\* a sheet for each of these cell values: an identifier and hours of May, the
\* cell value as the hours of the one driver
CellSheets ==
    {[name |-> <<"F", "e", "u", "i", "l", "1">>,
      rows |-> << <<StringCell(<<"C", "o", "d", "e", " ", "s", "a", "l", "a", "r", "i", "é">>),
                    StringCell(<<"M", "a", "i", " ", "P", "o", "s">>)>>,
                  <<StringCell(<<"E", "1">>), cell>> >>] : cell \in ExampleCells}

\* sheet names: no period and no year, a period with a two-digit and with a
\* four-digit year, a period without year, a year without period
SheetNames ==
    { <<"F", "e", "u", "i", "l", "1">>, <<"P", "1", " ", "2", "4">>, <<"P", "2", " ", "2", "0", "2", "5">>,
      <<"P", "é", "r", "i", "o", "d", "e", " ", "3">>,
      <<"S", "u", "i", "v", "i", " ", "2", "0", "2", "4">> }

\* rows above the header row: none, a title, a title with the word "code"
Preambles ==
    {<<>>, << <<StringCell(<<"S", "u", "i", "v", "i">>)>> >>, << <<StringCell(<<"C", "o", "d", "e", " ", "p", "o", "s", "t", "a", "l">>)>> >>}

\* header rows with the identifier first, and with the name fallback second
IdentifiedHeaderRows ==
    { <<StringCell(<<"C", "o", "d", "e", " ", "s", "a", "l", "a", "r", "i", "é">>), StringCell(<<"M", "a", "i", " ", "P", "o", "s">>)>>,
      <<StringCell(<<"M", "a", "i", " ", "P", "o", "s">>), StringCell(<<"N", "o", "m", " ", "P", "r", "é", "n", "o", "m">>)>> }

\* header rows with months of two periods, without month, with a month of
\* the third period next to the name fallback
PeriodHeaderRows ==
    { <<StringCell(<<"C", "o", "d", "e", " ", "s", "a", "l", "a", "r", "i", "é">>),
        StringCell(<<"S", "e", "p", "t", " ", "P", "o", "s">>),
        StringCell(<<"J", "a", "n", "v", " ", "M", "a", "n", "q">>)>>,
      <<StringCell(<<"C", "o", "d", "e", " ", "s", "a", "l", "a", "r", "i", "é">>),
        StringCell(<<"B", "U", "S", "/", "C", "A", "M">>)>>,
      <<StringCell(<<"N", "o", "m", " ", "P", "r", "é", "n", "o", "m">>),
        StringCell(<<"O", "c", "t", " ", "P", "o", "s">>)>> }

\* these, and a header row without identifier
FewHeaderRows ==
    IdentifiedHeaderRows \cup PeriodHeaderRows
    \cup { <<StringCell(<<"M", "a", "i", " ", "M", "a", "n", "q">>), StringCell(<<"M", "a", "i", " ", "P", "o", "s">>)>> }

\* the sheets given to parseSheet: every header row above two fixed rows,
\* a few header rows above every block of data rows, every sheet name and
\* preamble with a few header rows, the sheets of less than two rows, and
\* the sheets of one cell value
ParserInputs ==
    {[name |-> <<"F", "e", "u", "i", "l", "1">>,
      rows |-> <<h, FullRow(StringCell(<<"E", "1">>)), FullRow(WholeCell(2))>>] : h \in HeaderRows}
    \cup {[name |-> <<"F", "e", "u", "i", "l", "1">>, rows |-> <<h>> \o block] :
            h \in IdentifiedHeaderRows, block \in SeqsUpTo(DataRows, MaxGridRows)}
    \cup {[name |-> name, rows |-> pre \o <<h, FullRow(StringCell(<<"E", "1">>))>>] :
            name \in SheetNames, pre \in Preambles, h \in FewHeaderRows}
    \cup {[name |-> <<"F", "e", "u", "i", "l", "1">>, rows |-> rows] :
            rows \in {<<>>, << <<StringCell(<<"C", "o", "d", "e", " ", "s", "a", "l", "a", "r", "i", "é">>)>> >>}}
    \cup CellSheets

InitParser ==
    /\ clock \in ClockSet
    /\ IdleCalls
    /\ IdlePage
    /\ IdleDb
    /\ IdleAnalytics
    /\ \E input \in ParserInputs :
        /\ sheetRows = input.rows
        /\ sheetName = input.name
    /\ phase = "HeaderSearch"
    /\ headerRowIndex = 0
    /\ headers = <<>>
    /\ mapping = NULL
    /\ rowCursor = 0
    /\ sheetResult = NULL

NextParser ==
    \/ HeaderSearchTooShort
    \/ HeaderSearch
    \/ ColumnMapping
    \/ ParseRow
    \/ FinishSheet

SpecParser == InitParser /\ [][NextParser]_vars

----------------------------------------------------------------------------
(* Properties of detectColumns and parseSheet (SpecParser) *)

\* the month detectMonthFromHeader gives for each header cell
HeaderMonths == [i \in DOMAIN headers |-> detectMonthFromHeader(headers[i])]

\* the 0-based columns whose header names the month and a positive-hours keyword
PositiveCols(months, month) ==
    {i - 1 : i \in {c \in DOMAIN headers :
                        months[c] = month /\ IsPositiveHeader(normalizeText(headers[c]))}}

\* the header of the 0-based column i is none of identifier, vehicle type, buffer
InMonthBranch(i) ==
    /\ ~IsCodeSalarieHeader(normalizeText(headers[i + 1]))
    /\ ~IsVehicleTypeHeader(normalizeText(headers[i + 1]))
    /\ ~IsBufferHeader(normalizeText(headers[i + 1]))

\* the 0-based columns that the loop takes as missing-hours columns of the month
MissingCols(months, month) ==
    {i - 1 : i \in {c \in DOMAIN headers :
                        /\ months[c] = month
                        /\ InMonthBranch(c - 1)
                        /\ ~IsPositiveHeader(normalizeText(headers[c]))
                        /\ IsMissingHeader(normalizeText(headers[c]))}}

\* the mapping holds, for the month, first as positive-hours and second as missing-hours column
MappedAsPositiveAndMissing(month, first, second) ==
    \E k \in DOMAIN mapping.monthColumns :
        /\ mapping.monthColumns[k].month = month
        /\ mapping.monthColumns[k].positiveHoursCol = first
        /\ mapping.monthColumns[k].missingHoursCol = second

\* the header row has exactly two positive-hours columns of the month
HasDuplicate(months, month) == Cardinality(PositiveCols(months, month)) = 2

\* the first positive-hours column of the month is mapped as its
\* positive-hours column, the last as its missing-hours column
DuplicateIsMissing(months, month) ==
    MappedAsPositiveAndMissing(month, SetMin(PositiveCols(months, month)),
                                      SetMax(PositiveCols(months, month)))

\* the positive-hours columns of the month come to the month branch, and no
\* missing-hours column of the month comes before the last of them
NothingBeforeDuplicate(months, month) ==
    /\ \A i \in PositiveCols(months, month) : InMonthBranch(i)
    /\ \A k \in MissingCols(months, month) : k > SetMax(PositiveCols(months, month))

\* C8 as stated: whenever detectColumns gave a mapping for a header row with
\* exactly two columns that name the same month and a positive-hours keyword,
\* the first is that month's positive-hours column and the second its
\* missing-hours column, whatever the other columns are.
C8_Original ==
    mapping # NULL =>
        LET months == HeaderMonths
        IN \A month \in Range(months) \ {NoMonth} :
            HasDuplicate(months, month) => DuplicateIsMissing(months, month)

\* C8: whenever detectColumns gave a mapping for a header row with exactly
\* two columns that name the same month and a positive-hours keyword, neither
\* of which is an identifier, vehicle-type or buffer header, and no column
\* before the second one is a missing-hours column of that month, the first
\* is that month's positive-hours column and the second its missing-hours
\* column.
C8_DuplicatePositiveIsMissing ==
    mapping # NULL =>
        LET months == HeaderMonths
        IN \A month \in Range(months) \ {NoMonth} :
            (HasDuplicate(months, month) /\ NothingBeforeDuplicate(months, month))
                => DuplicateIsMissing(months, month)

\* a mapping of a header row with two positive-hours columns of May followed
\* by a missing-hours column of May
C8_Witness ==
    /\ mapping # NULL
    /\ LET months == HeaderMonths
       IN /\ HasDuplicate(months, 5)
          /\ NothingBeforeDuplicate(months, 5)
          /\ MissingCols(months, 5) # {}
          /\ DuplicateIsMissing(months, 5)

\* a cell is blank when it has no value or is a string of white space only
IsBlankCell(cell) ==
    cell.kind = "undefined" \/ (cell.kind = "string" /\ Trim(cell.chars) = <<>>)

\* the 0-based indexes of the rows below the header row whose identifier cell is not blank
RowsWithIdentifier ==
    {i \in (headerRowIndex + 1)..(Len(sheetRows) - 1) :
        ~IsBlankCell(CellAt(sheetRows[i + 1], mapping.codeSalarieCol))}

\* C9: when parseSheet is done with a sheet, the number of parsed rows is the
\* number of rows below the header row whose identifier cell is not blank
\* (every such row gives one parsed row, every other row is skipped).
C9_OneRowPerIdentifier ==
    phase = "Done" => Len(sheetResult.data) = Cardinality(RowsWithIdentifier)

\* no header cell holds both "code" and "salarie", none holds both "nom" and "prenom"
NoIdentifierHeader ==
    \A i \in DOMAIN headers :
        /\ ~(includes(normalizeText(headers[i]), <<"c", "o", "d", "e">>)
             /\ includes(normalizeText(headers[i]), <<"s", "a", "l", "a", "r", "i", "e">>))
        /\ ~(includes(normalizeText(headers[i]), <<"n", "o", "m">>)
             /\ includes(normalizeText(headers[i]), <<"p", "r", "e", "n", "o", "m">>))

----------------------------------------------------------------------------
(* Properties of the period detection (SpecParser) *)

\* the four-month block of a month: 1-4 is 1, 5-8 is 2, 9-12 is 3
MonthBlock(month) == ((month - 1) \div 4) + 1

\* what the sheet name states: NULL or [periodNumber, year]
NamedPeriod == detectPeriodFromSheetName(sheetName)

\* C11: in every sheet result, when at least one month is detected the
\* period number is the block of the smallest detected month, whatever the
\* sheet name states; when no month is detected the period is null unless
\* the sheet name states a period, and a period given then has the sheet
\* name's period number.
C11_PeriodNumberFromMonths ==
    sheetResult # NULL =>
        /\ sheetResult.detectedMonths # <<>> =>
                /\ sheetResult.detectedPeriod # NULL
                /\ sheetResult.detectedPeriod.periodNumber
                        = MonthBlock(SetMin(Range(sheetResult.detectedMonths)))
        /\ (sheetResult.detectedMonths = <<>> /\ NamedPeriod = NULL) =>
                sheetResult.detectedPeriod = NULL
        /\ (sheetResult.detectedMonths = <<>> /\ sheetResult.detectedPeriod # NULL) =>
                /\ NamedPeriod # NULL
                /\ sheetResult.detectedPeriod.periodNumber = NamedPeriod.periodNumber

\* a parsed sheet with months of two blocks, the smallest not first in the
\* header row, under a sheet name that states another period
C11_Witness ==
    /\ phase = "Done"
    /\ Len(sheetResult.detectedMonths) >= 2
    /\ MonthBlock(sheetResult.detectedMonths[1])
            # MonthBlock(sheetResult.detectedMonths[Len(sheetResult.detectedMonths)])
    /\ mapping.monthColumns[1].month # sheetResult.detectedMonths[1]
    /\ NamedPeriod # NULL
    /\ NamedPeriod.periodNumber # sheetResult.detectedPeriod.periodNumber

\* C12: in every sheet result with a period, the year is the year the sheet
\* name gives when it gives one and the current calendar year otherwise,
\* whether the period number comes from the months or from the sheet name.
C12_YearFromSheetName ==
    (sheetResult # NULL /\ sheetResult.detectedPeriod # NULL) =>
        sheetResult.detectedPeriod.year =
            IF NamedPeriod # NULL /\ NamedPeriod.year # NoYear THEN NamedPeriod.year
            ELSE clock.year

\* a parsed sheet whose period number comes from its months and whose year,
\* not the current one, comes from its name
C12_Witness ==
    /\ phase = "Done"
    /\ sheetResult.detectedMonths # <<>>
    /\ NamedPeriod # NULL
    /\ NamedPeriod.periodNumber # sheetResult.detectedPeriod.periodNumber
    /\ NamedPeriod.year # NoYear
    /\ sheetResult.detectedPeriod.year = NamedPeriod.year
    /\ sheetResult.detectedPeriod.year # clock.year

----------------------------------------------------------------------------
(* Properties of the parsed hours (SpecParser) *)

\* C13: every month record of every parsed row has positiveHours >= 0,
\* missingHours >= 0 and overtimePay >= 0, whatever the cells hold.
C13_NonNegativeHours ==
    sheetResult # NULL =>
        \A i \in DOMAIN sheetResult.data :
            \A k \in DOMAIN sheetResult.data[i].months :
                /\ sheetResult.data[i].months[k].positiveHours >= 0
                /\ sheetResult.data[i].months[k].missingHours >= 0
                /\ sheetResult.data[i].months[k].overtimePay >= 0

\* the cell holds no value, or a text without any digit (empty, blank, "n/a")
HoldsNoNumber(cell) ==
    \/ cell.kind = "undefined"
    \/ cell.kind = "string" /\ \A i \in DOMAIN cell.chars : cell.chars[i] \notin DigitChars

\* the identifier cell of the row holds a text that is not blank, or a
\* number other than 0
HasIdentifier(row, m) ==
    \/ /\ CellAt(row, m.codeSalarieCol).kind = "string"
       /\ Trim(CellAt(row, m.codeSalarieCol).chars) # <<>>
    \/ /\ CellAt(row, m.codeSalarieCol).kind = "number"
       /\ CellAt(row, m.codeSalarieCol).sixtieths # 0

\* the hours of the parsed row rec are 0 wherever the cell of row holds no number
ZeroWhereNoNumber(row, m, rec) ==
    /\ (m.bufferCol >= 0 /\ HoldsNoNumber(CellAt(row, m.bufferCol))) => rec.bufferHours = 0
    /\ \A k \in DOMAIN m.monthColumns :
        /\ (m.monthColumns[k].positiveHoursCol # NoCol
            /\ HoldsNoNumber(CellAt(row, m.monthColumns[k].positiveHoursCol)))
                => rec.months[k].positiveHours = 0
        /\ (m.monthColumns[k].missingHoursCol # NoCol
            /\ HoldsNoNumber(CellAt(row, m.monthColumns[k].missingHoursCol)))
                => rec.months[k].missingHours = 0
        /\ (m.monthColumns[k].overtimePayCol # NoCol
            /\ HoldsNoNumber(CellAt(row, m.monthColumns[k].overtimePayCol)))
                => rec.months[k].overtimePay = 0
        /\ (m.monthColumns[k].counterEndCol # NoCol
            /\ HoldsNoNumber(CellAt(row, m.monthColumns[k].counterEndCol)))
                => rec.months[k].counterEnd = 0

\* C16: a row with an identifier always gives one parsed row, whatever its
\* other cells hold; the hours read from a cell that is empty, blank or a
\* text without a number are 0; and neither the row nor the end of the
\* sheet puts an error on a sheet that has a parsed row.
C16_MalformedCellIsZero ==
    [][/\ (phase = "RowParsing" /\ rowCursor < Len(sheetRows)
           /\ HasIdentifier(sheetRows[rowCursor + 1], mapping)) =>
            /\ Len(sheetResult'.data) = Len(sheetResult.data) + 1
            /\ sheetResult'.errors = <<>>
            /\ ZeroWhereNoNumber(sheetRows[rowCursor + 1], mapping,
                                 sheetResult'.data[Len(sheetResult'.data)])
       /\ (phase = "RowParsing" /\ rowCursor >= Len(sheetRows) /\ sheetResult.data # <<>>) =>
            sheetResult'.errors = <<>>]_vars

\* a parsed sheet without error whose one driver has, as hours of a month, a
\* text that is neither blank nor a time nor a number, read as 0
C16_Witness ==
    /\ phase = "Done"
    /\ sheetResult.errors = <<>>
    /\ Len(sheetResult.data) = 1
    /\ mapping.monthColumns # <<>>
    /\ mapping.monthColumns[1].positiveHoursCol # NoCol
    /\ CellAt(sheetRows[Len(sheetRows)], mapping.monthColumns[1].positiveHoursCol).kind = "string"
    /\ Trim(CellAt(sheetRows[Len(sheetRows)], mapping.monthColumns[1].positiveHoursCol).chars) # <<>>
    /\ HoldsNoNumber(CellAt(sheetRows[Len(sheetRows)], mapping.monthColumns[1].positiveHoursCol))
    /\ sheetResult.data[1].months[1].positiveHours = 0


----------------------------------------------------------------------------
(* parseTimeValue called on one cell value (SpecTimeValue).                 *)

MaxTimeDigits == 2      \* digits of the hours and of the minutes of a time text
MaxSixtieths == 120     \* numeric cells run from -MaxSixtieths/60 to MaxSixtieths/60

TimeDigits == {"0", "1", "2", "3", "5", "7"}

\* the texts of 1..n of these digits
DigitTexts(n) == UNION {[1..k -> TimeDigits] : k \in 1..n}

\* the texts H:M and -H:M
TimeTexts ==
    {sign \o h \o <<":">> \o m :
        sign \in {<<>>, <<"-">>}, h \in DigitTexts(MaxTimeDigits), m \in DigitTexts(MaxTimeDigits)}

TimeInputs ==
    ExampleCells
    \cup {StringCell(t) : t \in TimeTexts}
    \cup {NumberCell(n) : n \in (-MaxSixtieths)..MaxSixtieths}

\* one call of parseTimeValue, from its argument to its returned value
parseTimeValueCall ==
    /\ timeValue # NULL
    /\ timeResult = NULL
    /\ timeResult' = [hours |-> parseTimeValue(timeValue)]
    /\ UNCHANGED <<clock, awaitVars, selectionVars, driverListVars, concurrentVars, fetchVars, pageVars, dbVars, anVars, parserVars, comparisonVars, workbookVars,
                   timeValue>>

InitTimeValue ==
    /\ clock \in ClockSet
    /\ IdlePage
    /\ IdleDb
    /\ IdleAwaits
    /\ IdleSelection
    /\ IdleDriverList
    /\ IdleConcurrent
    /\ IdleFetch
    /\ IdleAnalytics
    /\ IdleParser
    /\ IdleComparison
    /\ IdleWorkbook
    /\ timeValue \in TimeInputs
    /\ timeResult = NULL

NextTimeValue == parseTimeValueCall

SpecTimeValue == InitTimeValue /\ [][NextTimeValue]_vars

----------------------------------------------------------------------------
(* Properties of parseTimeValue (SpecTimeValue) *)

\* the text is H:M or -H:M, H and M being one digit or more
IsHourMinute(str) ==
    \E p \in DOMAIN str :
        /\ str[p] = ":"
        /\ LET h == IF str[1] = "-" THEN SubSeq(str, 2, p - 1) ELSE SubSeq(str, 1, p - 1)
               m == SubSeq(str, p + 1, Len(str))
           IN h # <<>> /\ m # <<>> /\ AllDigits(h) /\ AllDigits(m)

\* 60 * (H + M/60) of a text H:M or -H:M
HourMinuteMagnitude(str) ==
    LET p == IndexOf(str, ":")
    IN 60 * ToNat(SubSeq(str, IF str[1] = "-" THEN 2 ELSE 1, p - 1))
       + ToNat(SubSeq(str, p + 1, Len(str)))

\* C14: for every text H:M or -H:M the value parseTimeValue returns has the
\* magnitude H + M/60 and is negative exactly when the text starts with "-"
\* and the magnitude is not zero (so the value of -H:M is the negation of the
\* value of H:M).
C14_SignedHourMinute ==
    (timeResult # NULL /\ timeValue.kind = "string" /\ IsHourMinute(timeValue.chars)) =>
        timeResult.hours =
            IF timeValue.chars[1] = "-" /\ HourMinuteMagnitude(timeValue.chars) # 0
            THEN -HourMinuteMagnitude(timeValue.chars)
            ELSE HourMinuteMagnitude(timeValue.chars)

\* C15: for every numeric cell value v, parseTimeValue returns v * 24 when
\* |v| < 1 and v when |v| >= 1.
C15_DayFractionOrHours ==
    (timeResult # NULL /\ timeValue.kind = "number") =>
        /\ Abs(timeValue.sixtieths) < 60 => timeResult.hours = 24 * timeValue.sixtieths
        /\ Abs(timeValue.sixtieths) >= 60 => timeResult.hours = timeValue.sixtieths

\* parseTimeValue returned -1 for the number -1
C15_Witness ==
    /\ timeValue = WholeCell(-1)
    /\ timeResult = [hours |-> -60]

----------------------------------------------------------------------------
(* The analytics page's monthly series (SpecMonthly): the rows the          *)
(* paginated fetch of monthly_records returned, ordered by year and month,  *)
(* and the selected reference periods, ordered by year and period number.   *)

MaxMonthlyRows == 3     \* rows of monthly_records fetched for the selection

\* (counter_end, overtime_pay, missing_hours, positive_hours) of a record
MonthlyValues == { <<-2, 0, 2, 1>>, <<3, 1, 0, 201>>, <<0, 1, 1, 2>> }

\* the months of the records: a period's last month, the month before, the
\* last month of the year before
MonthlyMonths ==
    { [year |-> 2024, month |-> 12], [year |-> 2025, month |-> 3], [year |-> 2025, month |-> 4] }

MonthlyRows ==
    {[month |-> ym.month, year |-> ym.year, counter_end |-> v[1], overtime_pay |-> v[2],
      missing_hours |-> v[3], positive_hours |-> v[4], driver_id |-> 1] :
        ym \in MonthlyMonths, v \in MonthlyValues}

\* .order("year").order("month")
OrderedByMonth(rows) ==
    \A i, j \in DOMAIN rows :
        i < j => \/ rows[i].year < rows[j].year
                 \/ (rows[i].year = rows[j].year /\ rows[i].month <= rows[j].month)

MonthlyInputs ==
    {q \in SeqsUpTo(MonthlyRows, MaxMonthlyRows) : OrderedByMonth(q)}

\* the selected periods: one, two of one year, two of two years
PeriodSelections ==
    { << [year |-> 2025, period_number |-> 1] >>,
      << [year |-> 2025, period_number |-> 1], [year |-> 2025, period_number |-> 2] >>,
      << [year |-> 2024, period_number |-> 3], [year |-> 2025, period_number |-> 1] >> }

InitMonthly ==
    /\ clock \in ClockSet
    /\ IdleCalls
    /\ IdlePage
    /\ IdleDb
    /\ IdleParser
    /\ distData = <<>>
    /\ monthlyData \in MonthlyInputs
    /\ selectedPeriods \in PeriodSelections
    /\ analytics = NULL

NextMonthly == AnalyticsPage

SpecMonthly == InitMonthly /\ [][NextMonthly]_vars

----------------------------------------------------------------------------
(* Properties of the monthly series (SpecMonthly) *)

\* the sum of f over the indexes in S
RECURSIVE SumOver(_, _)
SumOver(S, f) ==
    IF S = {} THEN 0
    ELSE LET x == CHOOSE x \in S : TRUE IN f[x] + SumOver(S \ {x}, f)

\* the indexes of the fetched monthly records of a (year, month)
RecordsOfMonth(year, month) ==
    {k \in DOMAIN monthlyData : monthlyData[k].year = year /\ monthlyData[k].month = month}

OvertimePayOfMonth(year, month) ==
    SumOver(RecordsOfMonth(year, month), [k \in DOMAIN monthlyData |-> monthlyData[k].overtime_pay])

MissingHoursOfMonth(year, month) ==
    SumOver(RecordsOfMonth(year, month), [k \in DOMAIN monthlyData |-> monthlyData[k].missing_hours])

\* the sum of the counters > 0 of the month
PositiveCountersOfMonth(year, month) ==
    SumOver({k \in RecordsOfMonth(year, month) : monthlyData[k].counter_end > 0},
            [k \in DOMAIN monthlyData |-> monthlyData[k].counter_end])

\* the sum of the absolute values of the counters < 0 of the month
NegativeCountersOfMonth(year, month) ==
    SumOver({k \in RecordsOfMonth(year, month) : monthlyData[k].counter_end < 0},
            [k \in DOMAIN monthlyData |-> -monthlyData[k].counter_end])

----------------------------------------------------------------------------
(* The analytics client's fetchData (SpecComparison). Of the state it sets, *)
(* the model keeps periodComparison and loading; summaryData is what the    *)
(* query on driver_period_summary gave: NULL, or one row per (driver,       *)
(* period) of the selection.                                                *)

\* the entry of periodMap for a period: the sums over the rows of the period
PeriodEntry(rows, pid) ==
    LET mine == SelectSeq(rows, LAMBDA d : d.period_id = pid)
    IN [periodId |-> pid, year |-> mine[1].year, periodNumber |-> mine[1].period_number,
        totalDrivers |-> Len(mine),
        totalOvertimePay |-> SumSeq([k \in DOMAIN mine |-> mine[k].total_overtime_pay]),
        totalPositiveEnd |->
            SumSeq([k \in DOMAIN mine |->
                        IF mine[k].latest_counter > 0 THEN mine[k].latest_counter ELSE 0]),
        driversPositive |-> Cardinality({k \in DOMAIN mine : mine[k].latest_counter > 0}),
        totalMissingEnd |->
            SumSeq([k \in DOMAIN mine |->
                        IF mine[k].latest_counter < 0 THEN Abs(mine[k].latest_counter) ELSE 0]),
        driversNegative |-> Cardinality({k \in DOMAIN mine : mine[k].latest_counter < 0})]

\* Array.from(periodMap.values()): one entry per period_id, in the order of
\* the first row of each period
PeriodMapValues(rows) ==
    LET IsFirst(i) == \A j \in 1..(i - 1) : rows[j].period_id # rows[i].period_id
        F[i \in 0..Len(rows)] ==
            IF i = 0 THEN <<>>
            ELSE IF IsFirst(i) THEN Append(F[i - 1], PeriodEntry(rows, rows[i].period_id))
            ELSE F[i - 1]
    IN F[Len(rows)]

\* a sort of the entries by period number alone
SortByPeriodNumber(arr) ==
    LET Before(i, j) ==
            \/ arr[i].periodNumber < arr[j].periodNumber
            \/ (arr[i].periodNumber = arr[j].periodNumber /\ i < j)
        pos == [i \in DOMAIN arr |-> 1 + Cardinality({j \in DOMAIN arr : Before(j, i)})]
    IN [k \in DOMAIN arr |-> arr[CHOOSE i \in DOMAIN arr : pos[i] = k]]

\* .sort((a, b) => a.year - b.year || a.periodNumber - b.periodNumber): stable
SortByPeriod(arr) ==
    LET Before(i, j) ==
            \/ arr[i].year < arr[j].year
            \/ (arr[i].year = arr[j].year /\ arr[i].periodNumber < arr[j].periodNumber)
            \/ (arr[i].year = arr[j].year /\ arr[i].periodNumber = arr[j].periodNumber /\ i < j)
        pos == [i \in DOMAIN arr |-> 1 + Cardinality({j \in DOMAIN arr : Before(j, i)})]
    IN [k \in DOMAIN arr |-> arr[CHOOSE i \in DOMAIN arr : pos[i] = k]]

\* fetchData, from the answer of the summary query to setLoading(false)
fetchData ==
    /\ loading
    /\ periodComparison' = IF summaryData # NULL THEN SortByPeriod(PeriodMapValues(summaryData.rows))
                           ELSE periodComparison
    /\ loading' = FALSE
    /\ UNCHANGED <<clock, awaitVars, selectionVars, driverListVars, concurrentVars, fetchVars, pageVars, dbVars, anVars, parserVars, timeVars, workbookVars,
                   summaryData>>

MaxComparisonRows == 3  \* rows of driver_period_summary the client fetched

\* the reference periods of the selection; their ids are not in the order of time
ComparisonPeriods ==
    { [period_id |-> 1, year |-> 2025, period_number |-> 2],
      [period_id |-> 2, year |-> 2024, period_number |-> 3],
      [period_id |-> 3, year |-> 2025, period_number |-> 1] }

\* (latest_counter, total_overtime_pay) of a summary row
ComparisonValues == { <<-2, 0>>, <<0, 1>>, <<3, 2>> }

ComparisonRows ==
    {[period_id |-> q.period_id, year |-> q.year, period_number |-> q.period_number,
      latest_counter |-> v[1], total_overtime_pay |-> v[2]] :
        q \in ComparisonPeriods, v \in ComparisonValues}

InitComparison ==
    /\ clock \in ClockSet
    /\ IdlePage
    /\ IdleDb
    /\ IdleAwaits
    /\ IdleSelection
    /\ IdleDriverList
    /\ IdleConcurrent
    /\ IdleFetch
    /\ IdleAnalytics
    /\ IdleParser
    /\ IdleTimeValue
    /\ IdleWorkbook
    /\ summaryData \in {[rows |-> d] : d \in SeqsUpTo(ComparisonRows, MaxComparisonRows)} \cup {NULL}
    /\ periodComparison = <<>>
    /\ loading = TRUE

NextComparison == fetchData

SpecComparison == InitComparison /\ [][NextComparison]_vars

----------------------------------------------------------------------------
(* Properties of the period comparison (SpecComparison) *)

\* the indexes of the summary rows of a period
SummariesOf(pid) == {k \in DOMAIN summaryData.rows : summaryData.rows[k].period_id = pid}

\* the row of the comparison has the sums and the counts of the summary rows of its period
RowSumsItsPeriod(row) ==
    /\ row.totalDrivers = Cardinality(SummariesOf(row.periodId))
    /\ row.totalOvertimePay =
            SumOver(SummariesOf(row.periodId),
                    [k \in DOMAIN summaryData.rows |-> summaryData.rows[k].total_overtime_pay])
    /\ row.totalPositiveEnd =
            SumOver({k \in SummariesOf(row.periodId) : summaryData.rows[k].latest_counter > 0},
                    [k \in DOMAIN summaryData.rows |-> summaryData.rows[k].latest_counter])
    /\ row.driversPositive =
            Cardinality({k \in SummariesOf(row.periodId) : summaryData.rows[k].latest_counter > 0})
    /\ row.totalMissingEnd =
            SumOver({k \in SummariesOf(row.periodId) : summaryData.rows[k].latest_counter < 0},
                    [k \in DOMAIN summaryData.rows |-> -summaryData.rows[k].latest_counter])
    /\ row.driversNegative =
            Cardinality({k \in SummariesOf(row.periodId) : summaryData.rows[k].latest_counter < 0})
    /\ row.driversPositive + row.driversNegative <= row.totalDrivers

\* C18: once fetchData is through with the summaries it was given, the
\* period comparison has one row per period of these summaries; each row
\* has the number of summary rows of its period, their summed overtime pay,
\* the sum and the count of their counters > 0, the sum of the absolute
\* values and the count of their counters < 0; the rows are in ascending
\* order of (year, periodNumber).
C18_OneRowPerPeriod ==
    (~loading /\ summaryData # NULL) =>
        /\ Len(periodComparison) = Cardinality({summaryData.rows[k].period_id : k \in DOMAIN summaryData.rows})
        /\ {periodComparison[i].periodId : i \in DOMAIN periodComparison}
                = {summaryData.rows[k].period_id : k \in DOMAIN summaryData.rows}
        /\ \A i \in DOMAIN periodComparison : RowSumsItsPeriod(periodComparison[i])
        /\ \A i, j \in DOMAIN periodComparison :
                i < j => \/ periodComparison[i].year < periodComparison[j].year
                         \/ /\ periodComparison[i].year = periodComparison[j].year
                            /\ periodComparison[i].periodNumber < periodComparison[j].periodNumber

\* a comparison of two periods of different years, the later one met first
\* in the summaries, one of them with a counter > 0 and a counter < 0
C18_Witness ==
    /\ ~loading
    /\ summaryData # NULL
    /\ Len(periodComparison) = 2
    /\ periodComparison[1].year < periodComparison[2].year
    /\ summaryData.rows[1].period_id = periodComparison[2].periodId
    /\ \E i \in DOMAIN periodComparison :
            periodComparison[i].driversPositive = 1 /\ periodComparison[i].driversNegative = 1

----------------------------------------------------------------------------
(* Properties of the deduplication of importData (SpecImport) *)

\* the sheets of the last call that importData began: all of them, or those
\* up to the one that threw
SheetsBegun ==
    {k \in DOMAIN lastImport.sheets : lastImport.threw => k <= lastImport.failedAt}

\* the sheets of the last call that importData went through without a throw
SheetsStored ==
    {k \in DOMAIN lastImport.sheets : lastImport.threw => k < lastImport.failedAt}

\* the codes several rows of the sheet carry
RepeatedCodes(data) ==
    {data[i].codeSalarie : i \in {i \in DOMAIN data :
        \E j \in DOMAIN data : j # i /\ data[j].codeSalarie = data[i].codeSalarie}}

\* the last row of the sheet with the code
LastRowOf(data, code) ==
    data[CHOOSE i \in DOMAIN data :
            /\ data[i].codeSalarie = code
            /\ \A j \in DOMAIN data : data[j].codeSalarie = code => j <= i]

\* the month values of a parsed row, as the values of the records to store
RowValues(row, year, periodNumber) ==
    {[driver_id |-> row.codeSalarie, period |-> <<year, periodNumber>>,
      month |-> row.months[k].month, year |-> row.months[k].year,
      buffer_hours |-> row.bufferHours, positive_hours |-> row.months[k].positiveHours,
      missing_hours |-> row.months[k].missingHours, overtime_pay |-> row.months[k].overtimePay,
      counter_end |-> row.months[k].counterEnd] : k \in DOMAIN row.months}

\* the stored values of the records that the k-th sheet of the last call wrote for a driver
StoredBySheet(k, code) ==
    {RecordValues(r, lastImport.sheets[k].year, lastImport.sheets[k].periodNumber) :
        r \in {q \in PeriodRecords(db, lastImport.sheets[k].year, lastImport.sheets[k].periodNumber) :
                    /\ q.driver_id = code
                    /\ q.import_id = Len(lastImport.before.imports) + k}}

\* C19: after an importData call, for each sheet it went through and each
\* identifier that several rows of the sheet carry: the drivers table has one
\* driver with the identifier, the period of the sheet has at most one
\* record per (driver, month, year) for it, and the records this sheet wrote
\* have the buffer and the month values of the last row with the identifier;
\* when no later sheet of the call has the identifier, the driver has the
\* vehicle type of that last row, and when no later sheet of the call is of
\* the same period, the records are exactly those of that last row's months.
C19_LastRowWins ==
    lastImport # NULL =>
        \A k \in SheetsStored : \A code \in RepeatedCodes(lastImport.sheets[k].data) :
            LET sheet == lastImport.sheets[k]
                last == LastRowOf(sheet.data, code)
            IN /\ Cardinality({d \in db.drivers : d.code_salarie = code}) = 1
               /\ \A r1, r2 \in PeriodRecords(db, sheet.year, sheet.periodNumber) :
                    (r1.driver_id = code /\ r2.driver_id = code
                        /\ r1.month = r2.month /\ r1.year = r2.year) => r1 = r2
               /\ StoredBySheet(k, code) \subseteq RowValues(last, sheet.year, sheet.periodNumber)
               /\ (\A j \in SheetsBegun : j > k => code \notin
                        {lastImport.sheets[j].data[i].codeSalarie : i \in DOMAIN lastImport.sheets[j].data})
                    => \A d \in db.drivers :
                            d.code_salarie = code => d.vehicle_type = last.vehicleType
               /\ (\A j \in SheetsBegun : j > k =>
                        <<lastImport.sheets[j].year, lastImport.sheets[j].periodNumber>>
                            # <<sheet.year, sheet.periodNumber>>)
                    => StoredBySheet(k, code) = RowValues(last, sheet.year, sheet.periodNumber)

\* a call went through a sheet whose two rows of one identifier differ in
\* vehicle type, buffer and months, and the storage holds the last row's values
C19_Witness ==
    /\ lastImport # NULL
    /\ ~lastImport.threw
    /\ \E k \in DOMAIN lastImport.sheets : \E i, j \in DOMAIN lastImport.sheets[k].data :
        /\ i < j
        /\ lastImport.sheets[k].data[i].codeSalarie = lastImport.sheets[k].data[j].codeSalarie
        /\ lastImport.sheets[k].data[i].vehicleType # lastImport.sheets[k].data[j].vehicleType
        /\ lastImport.sheets[k].data[i].bufferHours # lastImport.sheets[k].data[j].bufferHours
        /\ Len(lastImport.sheets[k].data[i].months) > Len(lastImport.sheets[k].data[j].months)
        /\ StoredBySheet(k, lastImport.sheets[k].data[j].codeSalarie)
                = RowValues(lastImport.sheets[k].data[j], lastImport.sheets[k].year,
                            lastImport.sheets[k].periodNumber)
        /\ \E d \in db.drivers :
            /\ d.code_salarie = lastImport.sheets[k].data[j].codeSalarie
            /\ d.vehicle_type = lastImport.sheets[k].data[j].vehicleType

----------------------------------------------------------------------------
(* excel-parser.ts: parseExcelFile (SpecWorkbook). XLSX.read either throws   *)
(* or gives the sheets in the order of SheetNames; each sheet goes through   *)
(* the steps of parseSheet above.                                            *)

\* a filter that keeps only the sheet results with rows
IsReportedWithData(result) == result.data # <<>>

\* if (result.data.length > 0 || result.errors.length > 0) sheets.push(result)
IsReported(result) == result.data # <<>> \/ result.errors # <<>>

GlobalFailure(message) == [sheets |-> <<>>, globalErrors |-> <<message>>]

\* XLSX.read in its try, and the test of SheetNames.length
ReadWorkbook ==
    /\ workbook # NULL
    /\ sheetCursor = 0
    /\ fileResult = NULL
    /\ IF ~workbook.readable
       THEN /\ fileResult' = GlobalFailure("Impossible de lire le fichier Excel.")
            /\ sheetCursor' = 0
       ELSE IF workbook.sheets = <<>>
       THEN /\ fileResult' = GlobalFailure("Le fichier ne contient aucune feuille.")
            /\ sheetCursor' = 0
       ELSE /\ fileResult' = NULL
            /\ sheetCursor' = 1
    /\ UNCHANGED <<clock, awaitVars, selectionVars, driverListVars, concurrentVars, fetchVars, pageVars, dbVars, anVars, parserVars, comparisonVars, timeVars,
                   workbook, fileSheets>>

\* parseSheet(sheet, sheetName, defaultYear) is called on the next sheet
StartSheet ==
    /\ fileResult = NULL
    /\ sheetCursor \in 1..Len(workbook.sheets)
    /\ phase = "Idle"
    /\ sheetRows' = workbook.sheets[sheetCursor].rows
    /\ sheetName' = workbook.sheets[sheetCursor].name
    /\ phase' = "HeaderSearch"
    /\ headerRowIndex' = 0
    /\ headers' = <<>>
    /\ mapping' = NULL
    /\ rowCursor' = 0
    /\ sheetResult' = NULL
    /\ UNCHANGED <<clock, awaitVars, selectionVars, driverListVars, concurrentVars, fetchVars, pageVars, dbVars, anVars, comparisonVars, timeVars, workbookVars>>

\* parseSheet has returned: its result is pushed or left out
CollectSheet ==
    /\ fileResult = NULL
    /\ sheetCursor >= 1
    /\ phase \in {"Done", "Rejected"}
    /\ fileSheets' = IF IsReported(sheetResult) THEN Append(fileSheets, sheetResult)
                     ELSE fileSheets
    /\ sheetCursor' = sheetCursor + 1
    /\ phase' = "Idle"
    /\ UNCHANGED <<clock, awaitVars, selectionVars, driverListVars, concurrentVars, fetchVars, pageVars, dbVars, anVars, comparisonVars, timeVars, workbook,
                   fileResult, sheetRows, sheetName, headerRowIndex, headers, mapping,
                   rowCursor, sheetResult>>

\* after the last sheet: if (sheets.length === 0) ...; return { sheets, globalErrors: [] }
ReturnFile ==
    /\ fileResult = NULL
    /\ sheetCursor > Len(workbook.sheets)
    /\ phase = "Idle"
    /\ fileResult' = IF fileSheets = <<>>
                     THEN GlobalFailure("Aucune feuille avec des données de chauffeurs détectée.")
                     ELSE [sheets |-> fileSheets, globalErrors |-> <<>>]
    /\ UNCHANGED <<clock, awaitVars, selectionVars, driverListVars, concurrentVars, fetchVars, pageVars, dbVars, anVars, parserVars, comparisonVars, timeVars,
                   workbook, sheetCursor, fileSheets>>

MaxWorkbookSheets == 2  \* sheets of a workbook given to parseExcelFile

\* the sheets of a workbook: an empty sheet, a sheet with a driver, a sheet
\* without identifier column, a sheet whose only row has no identifier, and
\* a sheet with the name fallback and a text for hours
WorkbookSheets ==
    { [name |-> <<"F", "e", "u", "i", "l", "1">>, rows |-> <<>>],
      [name |-> <<"P", "1", " ", "2", "4">>,
       rows |-> << <<StringCell(<<"C", "o", "d", "e", " ", "s", "a", "l", "a", "r", "i", "é">>),
                     StringCell(<<"M", "a", "i", " ", "P", "o", "s">>)>>,
                   <<StringCell(<<"E", "1">>), StringCell(<<"1", "7", ":", "3", "0">>)>> >>],
      [name |-> <<"P", "2", " ", "2", "0", "2", "5">>,
       rows |-> << <<StringCell(<<"M", "a", "i", " ", "M", "a", "n", "q">>),
                     StringCell(<<"M", "a", "i", " ", "P", "o", "s">>)>>,
                   <<StringCell(<<"E", "1">>), WholeCell(2)>> >>],
      [name |-> <<"P", "é", "r", "i", "o", "d", "e", " ", "3">>,
       rows |-> << <<StringCell(<<"C", "o", "d", "e", " ", "s", "a", "l", "a", "r", "i", "é">>),
                     StringCell(<<"M", "a", "i", " ", "P", "o", "s">>)>>,
                   <<Undefined, WholeCell(2)>> >>],
      [name |-> <<"S", "u", "i", "v", "i", " ", "2", "0", "2", "4">>,
       rows |-> << <<StringCell(<<"N", "o", "m", " ", "P", "r", "é", "n", "o", "m">>),
                     StringCell(<<"O", "c", "t", " ", "P", "o", "s">>)>>,
                   <<StringCell(<<"E", "1">>), StringCell(<<"a", "b", "c">>)>> >>] }

\* a file that XLSX.read rejects, and the workbooks of these sheets, each
\* sheet at most once (sheet names are unique in a workbook)
Workbooks ==
    {[readable |-> FALSE, sheets |-> <<>>]}
    \cup {[readable |-> TRUE, sheets |-> w] :
            w \in UNION {InjectiveSeqs(WorkbookSheets, n) : n \in 0..MaxWorkbookSheets}}

InitWorkbook ==
    /\ clock \in ClockSet
    /\ IdlePage
    /\ IdleDb
    /\ IdleAwaits
    /\ IdleSelection
    /\ IdleDriverList
    /\ IdleConcurrent
    /\ IdleFetch
    /\ IdleAnalytics
    /\ IdleParser
    /\ IdleComparison
    /\ IdleTimeValue
    /\ workbook \in Workbooks
    /\ sheetCursor = 0
    /\ fileSheets = <<>>
    /\ fileResult = NULL

NextWorkbook ==
    \/ ReadWorkbook
    \/ StartSheet
    \/ HeaderSearchTooShort
    \/ HeaderSearch
    \/ ColumnMapping
    \/ ParseRow
    \/ FinishSheet
    \/ CollectSheet
    \/ ReturnFile

SpecWorkbook == InitWorkbook /\ [][NextWorkbook]_vars

----------------------------------------------------------------------------
(* Properties of parseExcelFile (SpecWorkbook) *)

SheetErrors ==
    { "La feuille ne contient pas assez de données.", NoCodeSalarieError,
      "Aucun chauffeur trouvé dans cette feuille." }

----------------------------------------------------------------------------
(* fetchAllPages (SpecFetch): the paginated fetch of the analytics page,   *)
(* the same loop as the two inline fetches of driver_period_summary and    *)
(* monthly_records. The query is made on a result set that does not change *)
(* between the pages; nullAt is the call of queryFn that answers with      *)
(* data: null (0: none does).                                              *)

\* a stop test that also stops on a page of exactly pageSize rows
IsShortOrFullPage(data, pageSize) == Len(data) <= pageSize

\* if (data.length < pageSize) break
IsShortPage(data, pageSize) == Len(data) < pageSize

\* queryFn(from, to): .range(from, to), both ends included, 0-based
QueryRange(rows, from, to) ==
    SubSeq(rows, from + 1, Min(to + 1, Len(rows)))

\* one turn of the while (true) loop
FetchPage ==
    /\ fetchQuery # NULL
    /\ ~fetchReturned
    /\ fetchCalls' = fetchCalls + 1
    /\ \E data \in {QueryRange(fetchQuery.rows, fetchFrom, fetchFrom + fetchQuery.pageSize - 1)} :
        IF fetchQuery.nullAt = fetchCalls + 1 \/ Len(data) = 0
        THEN /\ fetchReturned' = TRUE
             /\ UNCHANGED <<fetchResults, fetchFrom>>
        ELSE /\ fetchResults' = fetchResults \o data
             /\ IF IsShortPage(data, fetchQuery.pageSize)
                THEN /\ fetchReturned' = TRUE
                     /\ UNCHANGED fetchFrom
                ELSE /\ fetchReturned' = FALSE
                     /\ fetchFrom' = fetchFrom + fetchQuery.pageSize
    /\ UNCHANGED <<clock, awaitVars, selectionVars, driverListVars, concurrentVars, pageVars, dbVars, anVars, parserVars, comparisonVars, timeVars,
                   workbookVars, fetchQuery>>

MaxResultRows == 8      \* rows of the result set fetchAllPages reads
MaxPageSize == 4        \* pageSize

\* result sets of rows 1, 2, ..., n, each page size, a null answer at one of
\* the first three calls or at none
FetchQueries ==
    {[rows |-> [i \in 1..n |-> i], pageSize |-> size, nullAt |-> k] :
        n \in 0..MaxResultRows, size \in 1..MaxPageSize, k \in 0..3}

InitFetch ==
    /\ clock \in ClockSet
    /\ IdlePage
    /\ IdleDb
    /\ IdleAwaits
    /\ IdleSelection
    /\ IdleDriverList
    /\ IdleConcurrent
    /\ IdleAnalytics
    /\ IdleParser
    /\ IdleComparison
    /\ IdleTimeValue
    /\ IdleWorkbook
    /\ fetchQuery \in FetchQueries
    /\ fetchFrom = 0
    /\ fetchCalls = 0
    /\ fetchResults = <<>>
    /\ fetchReturned = FALSE

NextFetch == FetchPage

\* the loop's body has no other way to stop than its breaks: it keeps running
SpecFetch == InitFetch /\ [][NextFetch]_vars /\ WF_vars(FetchPage)

----------------------------------------------------------------------------
(* Properties of fetchAllPages (SpecFetch) *)

\* the pages asked for so far start at 0, pageSize, 2 * pageSize, ...
ConsecutivePages ==
    /\ fetchFrom = fetchQuery.pageSize * (IF fetchReturned THEN fetchCalls - 1 ELSE fetchCalls)
    /\ fetchCalls <= Len(fetchQuery.rows) \div fetchQuery.pageSize + 1

\* C21: fetchAllPages asks for consecutive pages of pageSize rows from
\* offset 0, and it returns in the end; when every page was answered, what
\* it returns is the result set, every row once and in order, also when the
\* number of rows is a multiple of pageSize.
C21_ReturnsEveryRowOnce ==
    /\ [](ConsecutivePages)
    /\ <>[](/\ fetchReturned
            /\ fetchQuery.nullAt \notin 1..fetchCalls => fetchResults = fetchQuery.rows)

\* fetchAllPages returned a result set of two full pages after a third, empty page
C21_Witness ==
    /\ fetchReturned
    /\ fetchQuery.nullAt = 0
    /\ fetchQuery.pageSize > 1
    /\ Len(fetchQuery.rows) = 2 * fetchQuery.pageSize
    /\ fetchCalls = 3
    /\ fetchResults = fetchQuery.rows

----------------------------------------------------------------------------
(* Properties of the aggregation without data (SpecMonthly) *)

\* the (year, month) slots of the selected periods
SelectedSlots ==
    {<<selectedPeriods[i].year, FindPeriod(selectedPeriods[i].period_number).months[k]>> :
        i \in DOMAIN selectedPeriods, k \in 1..4}

\* C22: when the page has computed its props from no summary row and no
\* monthly record, the distribution, the critical set and the status
\* breakdown are empty, and the monthly series have one entry per month of
\* the selected periods, each with an average of 0 (a quotient with a
\* divisor that is not 0), 0 hours paid, 0 hours missing, 0 positive and
\* negative hours and 0 drivers.
C22_EmptyInputGivesZeros ==
    (analytics # NULL /\ distData = <<>> /\ monthlyData = <<>>) =>
        /\ analytics.distribution = <<>>
        /\ analytics.criticalDriverIds = {}
        /\ analytics.statusBreakdown = <<>>
        /\ {<<e.year, e.month>> : e \in Range(analytics.monthlyAvg)} = SelectedSlots
        /\ Len(analytics.monthlyAvg) = Cardinality(SelectedSlots)
        /\ \A i \in DOMAIN analytics.monthlyAvg :
            /\ analytics.monthlyAvg[i].moyenneCount # 0
            /\ analytics.monthlyAvg[i].moyenneSum = 0
            /\ analytics.monthlyAvg[i].heuresPayees = 0
            /\ analytics.monthlyAvg[i].heuresManquantes = 0
        /\ Len(analytics.monthlyHours) = Cardinality(SelectedSlots)
        /\ \A i \in DOMAIN analytics.monthlyHours :
            /\ analytics.monthlyHours[i].heuresPositives = 0
            /\ analytics.monthlyHours[i].heuresNegatives = 0
            /\ analytics.monthlyHours[i].driverCount = 0

\* the props computed from no row for two selected periods: eight slots
C22_Witness ==
    /\ analytics # NULL
    /\ distData = <<>>
    /\ monthlyData = <<>>
    /\ Len(selectedPeriods) = 2
    /\ Len(analytics.monthlyAvg) = 8
    /\ analytics.topN = 1

----------------------------------------------------------------------------
(* Properties of a failing importData (SpecImport) *)

\* the last call threw inside the try block of its sheet failedAt (a driver
\* batch or a record batch gave an error): the import record of that sheet
\* was created before
ThrewInTry ==
    /\ lastImport # NULL
    /\ lastImport.threw
    /\ lastImport.failedAt >= 1
    /\ Len(db.imports) = Len(lastImport.before.imports) + lastImport.failedAt

\* no sheet of the last call before the one that threw is of the same period
FirstOfItsPeriod ==
    \A j \in 1..(lastImport.failedAt - 1) :
        <<lastImport.sheets[j].year, lastImport.sheets[j].periodNumber>>
            # <<lastImport.sheets[lastImport.failedAt].year,
                lastImport.sheets[lastImport.failedAt].periodNumber>>

\* C23: when importData threw on a driver upsert or a record batch of a
\* sheet, the period of that sheet holds the monthly records, with the
\* values, it held before the call.
C23_FailureKeepsRecords ==
    (ThrewInTry /\ FirstOfItsPeriod) =>
        PeriodValues(db, lastImport.sheets[lastImport.failedAt].year,
                     lastImport.sheets[lastImport.failedAt].periodNumber)
            = PeriodValues(lastImport.before, lastImport.sheets[lastImport.failedAt].year,
                           lastImport.sheets[lastImport.failedAt].periodNumber)

----------------------------------------------------------------------------
(* Concurrent importData calls (SpecConcurrentImport): the server action is *)
(* an async function, two requests interleave at its awaits. Each call has  *)
(* one sheet and no storage error; a step is one awaited storage call, the   *)
(* batches of a sheet being one step (the sheets here fit in one batch).    *)
(* pc is the step the call is to take next.                                 *)

Callers == {1, 2}

\* the run of a call, as the steps of the sheet's loop body take it
CallRun(c) ==
    [db |-> db, periodId |-> calls[c].periodId, importId |-> calls[c].importId,
     driverMap |-> calls[c].driverMap, threw |-> FALSE]

\* 1. await ... .from("reference_periods").upsert(...).select("id").single()
CallPeriod(c) ==
    /\ calls[c].pc = "period"
    /\ \E s \in {PeriodStep(db, calls[c].sheet, FindPeriod(calls[c].sheet.periodNumber))} :
        /\ db' = s.db
        /\ calls' = [calls EXCEPT ![c].pc = "import", ![c].periodId = s.periodId]
    /\ UNCHANGED <<clock, awaitVars, selectionVars, driverListVars, pageVars, anVars, parserVars, comparisonVars, timeVars, workbookVars,
                   fetchVars, lastImport>>

\* 2. await ... .from("imports").insert(...).select("id").single()
CallImportRecord(c) ==
    /\ calls[c].pc = "import"
    /\ \E s \in {ImportRecordStep(CallRun(c))} :
        /\ db' = s.db
        /\ calls' = [calls EXCEPT ![c].pc = "delete", ![c].importId = s.importId]
    /\ UNCHANGED <<clock, awaitVars, selectionVars, driverListVars, pageVars, anVars, parserVars, comparisonVars, timeVars, workbookVars,
                   fetchVars, lastImport>>

\* 3. await ... .from("monthly_records").delete().eq("period_id", refPeriod.id)
CallDelete(c) ==
    /\ calls[c].pc = "delete"
    /\ db' = DeleteStep(CallRun(c), NoFault).db
    /\ calls' = [calls EXCEPT ![c].pc = "drivers"]
    /\ UNCHANGED <<clock, awaitVars, selectionVars, driverListVars, pageVars, anVars, parserVars, comparisonVars, timeVars, workbookVars,
                   fetchVars, lastImport>>

\* 4. await ... .from("drivers").upsert(driverRows, ...).select("id, code_salarie")
CallDrivers(c) ==
    /\ calls[c].pc = "drivers"
    /\ \E s \in {DriversStep(CallRun(c), DeduplicateDrivers(calls[c].sheet.data), NoFault)} :
        /\ db' = s.db
        /\ calls' = [calls EXCEPT ![c].pc = "records", ![c].driverMap = s.driverMap]
    /\ UNCHANGED <<clock, awaitVars, selectionVars, driverListVars, pageVars, anVars, parserVars, comparisonVars, timeVars, workbookVars,
                   fetchVars, lastImport>>

\* 5. await ... .from("monthly_records").upsert(batch, ...)
CallRecords(c) ==
    /\ calls[c].pc = "records"
    /\ db' = RecordsStep(CallRun(c), DeduplicateDrivers(calls[c].sheet.data), NoFault).db
    /\ calls' = [calls EXCEPT ![c].pc = "status"]
    /\ UNCHANGED <<clock, awaitVars, selectionVars, driverListVars, pageVars, anVars, parserVars, comparisonVars, timeVars, workbookVars,
                   fetchVars, lastImport>>

\* 6. await ... .from("imports").update({ status: "completed", ... }), and the return
CallStatus(c) ==
    /\ calls[c].pc = "status"
    /\ db' = StatusStep(CallRun(c), NoFault, Len(calls[c].sheet.data)).db
    /\ calls' = [calls EXCEPT ![c].pc = "done"]
    /\ UNCHANGED <<clock, awaitVars, selectionVars, driverListVars, pageVars, anVars, parserVars, comparisonVars, timeVars, workbookVars,
                   fetchVars, lastImport>>

\* two calls for the period P1 2025 with different rows
ConcurrentSheets ==
    {p \in ImportSheetInputs \X ImportSheetInputs :
        p[1].periodNumber = 1 /\ p[2].periodNumber = 1 /\ p[1].data # p[2].data}

InitConcurrentImport ==
    /\ clock \in ClockSet
    /\ IdlePage
    /\ IdleDb
    /\ IdleAwaits
    /\ IdleSelection
    /\ IdleDriverList
    /\ IdleAnalytics
    /\ IdleParser
    /\ IdleComparison
    /\ IdleTimeValue
    /\ IdleWorkbook
    /\ IdleFetch
    /\ \E p \in ConcurrentSheets :
        calls = [c \in Callers |->
                    [pc |-> "period", sheet |-> p[c], periodId |-> 0, importId |-> 0,
                     driverMap |-> {}]]

NextConcurrentImport ==
    \E c \in Callers :
        \/ CallPeriod(c)
        \/ CallImportRecord(c)
        \/ CallDelete(c)
        \/ CallDrivers(c)
        \/ CallRecords(c)
        \/ CallStatus(c)

SpecConcurrentImport == InitConcurrentImport /\ [][NextConcurrentImport]_vars

----------------------------------------------------------------------------
(* Properties of concurrent imports (SpecConcurrentImport) *)

\* the values of the records that an import of the sheet alone leaves in its period
SheetValues(sheet) ==
    UNION {RowValues(LastRowOf(sheet.data, sheet.data[i].codeSalarie), sheet.year,
                     sheet.periodNumber) : i \in DOMAIN sheet.data}

\* C24: when two importData calls for one (periodNumber, year) with
\* different sheets have both returned, the monthly records of the period
\* are those of one of the two sheets.
C24_SerialOutcome ==
    (\A c \in Callers : calls[c].pc = "done") =>
        \E c \in Callers :
            PeriodValues(db, calls[c].sheet.year, calls[c].sheet.periodNumber)
                = SheetValues(calls[c].sheet)

----------------------------------------------------------------------------
(* Properties of the stored records (SpecPage) *)

\* C25: every monthly record in storage belongs to a reference period whose
\* year is the record's year and whose months, start_month to end_month,
\* include the record's month.
C25_RecordsWithinTheirPeriod ==
    \A r \in db.monthly_records :
        \E q \in db.reference_periods :
            /\ q.id = r.period_id
            /\ r.year = q.year
            /\ r.month \in q.start_month..q.end_month

----------------------------------------------------------------------------
(* Driver list (DriverListClient): the critical drivers of the list, next    *)
(* to the analytics page's, both computed from the rows of distData, one    *)
(* row per driver (SpecDriverList).                                         *)

\* const top10Count = Math.max(1, Math.ceil(drivers.length * 0.1))
Top10Count(n) == Max(1, (n + 9) \div 10)

\* the driver ids of the first n rows
FirstIds(sorted, n) == {sorted[i].driver_id : i \in 1..n}

\* criticalDriverIds of the driver list: the top10Count drivers with the
\* highest overtime pay + counter and the top10Count with the lowest counter
ListCriticalDriverIds(drivers) ==
    IF Len(drivers) = 0 THEN {}
    ELSE FirstIds(StableSort(drivers,
                             [i \in DOMAIN drivers |->
                                drivers[i].total_overtime_pay + drivers[i].latest_counter],
                             FALSE),
                  Top10Count(Len(drivers)))
         \cup FirstIds(StableSort(drivers, [i \in DOMAIN drivers |-> drivers[i].latest_counter],
                                  TRUE),
                       Top10Count(Len(drivers)))

\* the useMemo of criticalDriverIds
DriverListClient ==
    /\ driverList = NULL
    /\ driverList' = [criticalDriverIds |-> ListCriticalDriverIds(distData)]
    /\ UNCHANGED <<clock, awaitVars, selectionVars, pageVars, dbVars, anVars, parserVars, comparisonVars, timeVars,
                   workbookVars, fetchVars, concurrentVars>>

\* the rows of the analytics page's environment with one row per driver
DriverListInputs ==
    {q \in AnalyticsInputs : \A i, j \in DOMAIN q : q[i].driver_id = q[j].driver_id => i = j}

InitDriverList ==
    /\ clock \in ClockSet
    /\ IdlePage
    /\ IdleDb
    /\ IdleAwaits
    /\ IdleSelection
    /\ IdleParser
    /\ IdleComparison
    /\ IdleTimeValue
    /\ IdleWorkbook
    /\ IdleFetch
    /\ IdleConcurrent
    /\ distData \in DriverListInputs
    /\ monthlyData = <<>>
    /\ selectedPeriods = <<>>
    /\ analytics = NULL
    /\ driverList = NULL

NextDriverList ==
    \/ AnalyticsPage
    \/ DriverListClient

SpecDriverList == InitDriverList /\ [][NextDriverList]_vars

----------------------------------------------------------------------------
(* Properties of the two critical sets (SpecDriverList) *)

\* C26: once the driver list and the analytics page have both computed their
\* critical drivers from the same rows, one per driver, the two sets are equal.
C26_SameCriticalDrivers ==
    (driverList # NULL /\ analytics # NULL) =>
        driverList.criticalDriverIds = analytics.criticalDriverIds

----------------------------------------------------------------------------
(* Comparison page (ComparisonPage): the selection of drivers               *)
(* (SpecSelection). addDriver runs in two parts: its two tests on the       *)
(* selectedDrivers of the render it was created in, then, after the awaited *)
(* query, the functional update that appends. The popover with the drivers  *)
(* stays open during the await (setOpen(false) comes after it).             *)

MaxSelected == 5        \* if (selectedDrivers.length >= 5) return

MaxPendingAdds == 2     \* addDriver calls awaiting their query at one time

ComparisonDrivers == {"d1", "d2", "d3"}

\* addDriver(driver) up to its await: the two early returns, then the query is sent
addDriverStart(driver) ==
    /\ Len(pendingAdds) < MaxPendingAdds
    /\ Len(selectedDrivers) < MaxSelected
    /\ driver \notin Range(selectedDrivers)
    /\ pendingAdds' = Append(pendingAdds, driver)
    /\ UNCHANGED <<clock, awaitVars, pageVars, dbVars, anVars, parserVars, comparisonVars, timeVars,
                   workbookVars, fetchVars, concurrentVars, driverListVars, selectedDrivers>>

\* the query of the k-th awaiting call answers: setSelectedDrivers((prev) => [...prev, ...])
addDriverFinish(k) ==
    /\ k \in DOMAIN pendingAdds
    /\ selectedDrivers' = Append(selectedDrivers, pendingAdds[k])
    /\ pendingAdds' = SubSeq(pendingAdds, 1, k - 1) \o SubSeq(pendingAdds, k + 1, Len(pendingAdds))
    /\ UNCHANGED <<clock, awaitVars, pageVars, dbVars, anVars, parserVars, comparisonVars, timeVars,
                   workbookVars, fetchVars, concurrentVars, driverListVars>>

\* removeDriver(id): the button of a badge of the selection
removeDriver(id) ==
    /\ id \in Range(selectedDrivers)
    /\ selectedDrivers' = SelectSeq(selectedDrivers, LAMBDA d : d # id)
    /\ UNCHANGED <<clock, awaitVars, pageVars, dbVars, anVars, parserVars, comparisonVars, timeVars,
                   workbookVars, fetchVars, concurrentVars, driverListVars, pendingAdds>>

InitSelection ==
    /\ clock \in ClockSet
    /\ IdlePage
    /\ IdleDb
    /\ IdleAwaits
    /\ IdleAnalytics
    /\ IdleParser
    /\ IdleComparison
    /\ IdleTimeValue
    /\ IdleWorkbook
    /\ IdleFetch
    /\ IdleConcurrent
    /\ IdleDriverList
    /\ selectedDrivers = <<>>
    /\ pendingAdds = <<>>

NextSelection ==
    \/ \E driver \in ComparisonDrivers : addDriverStart(driver)
    \/ \E k \in 1..MaxPendingAdds : addDriverFinish(k)
    \/ \E id \in ComparisonDrivers : removeDriver(id)

SpecSelection == InitSelection /\ [][NextSelection]_vars

----------------------------------------------------------------------------
(* Properties of the selection (SpecSelection) *)

\* C27: the selection of the comparison page never holds more than 5
\* drivers and never holds a driver twice.
C27_SelectionBounded ==
    /\ Len(selectedDrivers) <= MaxSelected
    /\ \A i, j \in DOMAIN selectedDrivers : selectedDrivers[i] = selectedDrivers[j] => i = j

----------------------------------------------------------------------------
(* Properties of the import records (SpecImport) *)

\* the import records the last call created, by the position of their sheet
CreatedImports == Len(db.imports) - Len(lastImport.before.imports)

ImportOfSheet(k) == db.imports[Len(lastImport.before.imports) + k]

\* no sheet of the last call from first to last is of the period of sheet k
NoneOfPeriod(k, first, last) ==
    \A j \in first..last :
        <<lastImport.sheets[j].year, lastImport.sheets[j].periodNumber>>
            # <<lastImport.sheets[k].year, lastImport.sheets[k].periodNumber>>

\* C28: when importData has returned or thrown, each import record it
\* created is "failed" if its sheet is the one that threw and "completed"
\* otherwise, none is left "processing"; the sheets before the one that threw
\* have their records stored (unless a later sheet of the call took the same
\* period), and the sheets after it have no import record and the records of
\* their periods are those of before the call.
C28_ImportRecordsSettled ==
    lastImport # NULL =>
        /\ CreatedImports <= Len(lastImport.sheets)
        /\ ~lastImport.threw => CreatedImports = Len(lastImport.sheets)
        /\ lastImport.threw => CreatedImports \in {lastImport.failedAt - 1, lastImport.failedAt}
        /\ \A k \in 1..CreatedImports :
            ImportOfSheet(k).status =
                IF lastImport.threw /\ k = lastImport.failedAt THEN "failed" ELSE "completed"
        /\ \A k \in SheetsStored :
            NoneOfPeriod(k, k + 1, Len(lastImport.sheets)) =>
                SheetValues(lastImport.sheets[k])
                    \subseteq PeriodValues(db, lastImport.sheets[k].year,
                                           lastImport.sheets[k].periodNumber)
        /\ \A k \in DOMAIN lastImport.sheets :
            (lastImport.threw /\ k > lastImport.failedAt /\ NoneOfPeriod(k, 1, lastImport.failedAt))
                => PeriodValues(db, lastImport.sheets[k].year, lastImport.sheets[k].periodNumber)
                    = PeriodValues(lastImport.before, lastImport.sheets[k].year,
                                   lastImport.sheets[k].periodNumber)

----------------------------------------------------------------------------
(* Properties of the vehicle-type column (SpecParser) *)

\* C29: whenever detectColumns has returned a mapping with a vehicle-type
\* column (found by its header or taken by the positional fallback), this
\* column is not the identifier column.
C29_VehicleColumnNotIdentifier ==
    (mapping # NULL /\ mapping.vehicleTypeCol # NoCol)
        => mapping.vehicleTypeCol # mapping.codeSalarieCol

----------------------------------------------------------------------------
(* Import page (ImportPage): the stage and the awaits of its handlers        *)
(* (SpecStages). handleFile awaits file.arrayBuffer() before it parses and   *)
(* sets the state, handleImport awaits importData before it sets the stage;  *)
(* the drop zone and the file input are rendered while the stage is          *)
(* "upload", which it still is while a handleFile call awaits.               *)

MaxPendingFiles == 2    \* handleFile calls awaiting their buffer at one time

\* the files dropped on the page: a workbook that cannot be read, or one sheet
StageFiles == {r \in PageParseResults : Len(r.sheets) <= 1}

\* handleFile(file) up to its await: the extension test, then the buffer is asked for
handleFileAwait(nameOk, result) ==
    /\ stage = "upload"
    /\ Len(db.imports) < MaxPageImports
    /\ Len(pendingFiles) < MaxPendingFiles
    /\ nameOk
    /\ pendingFiles' = Append(pendingFiles, result)
    /\ UNCHANGED <<clock, pageVars, dbVars, anVars, parserVars, comparisonVars, timeVars,
                   workbookVars, fetchVars, concurrentVars, driverListVars, selectionVars,
                   importCall>>

\* the buffer of the k-th awaiting call arrives: parseExcelFile, setParseResult,
\* then the return on a global error, or setSheetConfigs and setStage("preview")
handleFileResume(k) ==
    /\ k \in DOMAIN pendingFiles
    /\ parseResult' = pendingFiles[k]
    /\ IF Len(pendingFiles[k].globalErrors) > 0
       THEN UNCHANGED <<stage, sheetConfigs>>
       ELSE /\ sheetConfigs' = HandleFileConfigs(pendingFiles[k].sheets)
            /\ stage' = "preview"
    /\ pendingFiles' = SubSeq(pendingFiles, 1, k - 1) \o SubSeq(pendingFiles, k + 1, Len(pendingFiles))
    /\ UNCHANGED <<clock, dbVars, anVars, parserVars, comparisonVars, timeVars,
                   workbookVars, fetchVars, concurrentVars, driverListVars, selectionVars,
                   importCall>>

\* an importData call of handleImport has not returned yet
ImportPending == IF importCall = NULL THEN FALSE ELSE importCall.outcome = "pending"

\* handleImport up to the await of importData, the enabled sheets being those
\* of this render; one importData call of the page is in flight at a time
handleImportAwait ==
    /\ stage = "preview"
    /\ parseResult # NULL
    /\ ~ImportPending
    /\ \A i \in DOMAIN sheetConfigs :
        sheetConfigs[i].enabled => sheetConfigs[i].sheetIndex \in DOMAIN parseResult.sheets
    /\ Len(EnabledSheets) > 0
    /\ stage' = "importing"
    /\ importCall' = [sheets |-> EnabledSheets, outcome |-> "pending"]
    /\ UNCHANGED <<clock, parseResult, sheetConfigs, dbVars, anVars, parserVars, comparisonVars,
                   timeVars, workbookVars, fetchVars, concurrentVars, driverListVars,
                   selectionVars, pendingFiles>>

\* importData returns or throws: setStage("done"), or setStage("preview") in the catch
handleImportResume(faults) ==
    /\ ImportPending
    /\ \E r \in {importData(db, importCall.sheets, faults)} :
        /\ db' = r.db
        /\ stage' = IF r.threw THEN "preview" ELSE "done"
        /\ importCall' = [importCall EXCEPT !.outcome = IF r.threw THEN "threw" ELSE "returned"]
    /\ UNCHANGED <<clock, parseResult, sheetConfigs, lastImport, anVars, parserVars,
                   comparisonVars, timeVars, workbookVars, fetchVars, concurrentVars,
                   driverListVars, selectionVars, pendingFiles>>

InitStages == InitPage

NextStages ==
    \/ \E nameOk \in BOOLEAN, result \in StageFiles : handleFileAwait(nameOk, result)
    \/ \E k \in 1..MaxPendingFiles : handleFileResume(k)
    \/ \E index \in 1..MaxSheets, updates \in ConfigUpdates : updateSheetConfig(index, updates)
    \/ handleImportAwait
    \/ \E faults \in PageFaults : handleImportResume(faults)
    \/ backToUpload

SpecStages == InitStages /\ [][NextStages]_vars

\* the stage changes of the import page that follow its diagram
StageStep ==
    \/ /\ stage = "upload" /\ stage' = "preview"
       /\ parseResult' # NULL
       /\ Len(parseResult'.globalErrors) = 0
    \/ /\ stage = "preview" /\ stage' = "importing"
       /\ importCall' # NULL
       /\ importCall'.outcome = "pending"
       /\ Len(importCall'.sheets) > 0
    \/ /\ stage = "importing" /\ stage' = "done"
       /\ importCall # NULL
       /\ importCall.outcome = "pending"
       /\ importCall'.outcome = "returned"
    \/ /\ stage = "importing" /\ stage' = "preview"
       /\ importCall # NULL
       /\ importCall.outcome = "pending"
       /\ importCall'.outcome = "threw"
    \/ /\ stage \in {"preview", "done"} /\ stage' = "upload"

\* importData is called with at least one sheet
CalledWithSheets == importCall # NULL => Len(importCall.sheets) > 0

\* the stage is "done" only after an importData call that returned
DoneAfterSuccess == stage = "done" => (importCall # NULL /\ importCall.outcome = "returned")

\* C30: the stage of the import page changes only from upload to preview (a
\* file parsed with no global error), from preview to importing (at least one
\* enabled sheet), from importing to done (importData returned), from
\* importing to preview (importData threw) and from preview or done to
\* upload; importData is never called with no sheet and the stage is never
\* "done" without an importData call that returned.
C30_StageTransitions ==
    /\ [][stage' # stage => StageStep]_vars
    /\ [](CalledWithSheets)
    /\ [](DoneAfterSuccess)

====
